---- MODULE Spec2Model ----
(***************************************************************************)
(* Book Discovery Hub: the browser-side BookAPI (request cache, request    *)
(* validation), the Express recommendation endpoint that forwards to the   *)
(* ML scoring service, and the UI input validator.                         *)
(*                                                                         *)
(* Strings are sequences of character codes (Latin-1 / UTF-16 code units), *)
(* so that trim, toLowerCase, JSON.stringify and btoa are computed and not *)
(* assumed.  "ab" is <<97,98>>, " " is 32, "_" is 95.                      *)
(***************************************************************************)
EXTENDS Integers, Sequences, FiniteSets, TLC

----------------------------------------------------------------------------
(* Bounds of the model *)

\* number of earlier distinct queries whose results a warm-up burst stores
PreFill == 49

----------------------------------------------------------------------------
(* JavaScript strings *)

WhiteSpace == {9, 10, 11, 12, 13, 32, 160}

\* String.prototype.trim
Trim(s) ==
    LET keep == {i \in 1..Len(s) : s[i] \notin WhiteSpace}
    IN  IF keep = {} THEN <<>>
        ELSE LET lo == CHOOSE i \in keep : \A j \in keep : i <= j
                 hi == CHOOSE i \in keep : \A j \in keep : j <= i
             IN  SubSeq(s, lo, hi)

LowerChar(c) ==
    IF c \in 65..90 THEN c + 32
    ELSE IF c \in 192..222 /\ c # 215 THEN c + 32
    ELSE c

\* String.prototype.toLowerCase
ToLowerCase(s) == [i \in 1..Len(s) |-> LowerChar(s[i])]

RECURSIVE Digits(_)
Digits(n) == IF n < 10 THEN <<48 + n>> ELSE Digits(n \div 10) \o <<48 + (n % 10)>>

\* Number -> String for integers
NumToString(n) == IF n < 0 THEN <<45>> \o Digits(0 - n) ELSE Digits(n)

\* String.prototype.repeat for a one-character string
Repeat(c, n) == [i \in 1..n |-> c]

----------------------------------------------------------------------------
(* JavaScript values and objects.  A value is a record                     *)
(*   [t |-> "undef" | "num" | "str" | "arr", n |-> number, s |-> string,   *)
(*    a |-> array of strings];                                             *)
(* an object is the sequence of its [k, v] properties in insertion order.  *)

Undef == [t |-> "undef", n |-> 0, s |-> <<>>, a |-> <<>>]
Num(n) == [t |-> "num", n |-> n, s |-> <<>>, a |-> <<>>]
Str(s) == [t |-> "str", n |-> 0, s |-> s, a |-> <<>>]
Arr(a) == [t |-> "arr", n |-> 0, s |-> <<>>, a |-> a]

\* ToBoolean
Truthy(v) ==
    CASE v.t = "undef" -> FALSE
      [] v.t = "num"   -> v.n # 0
      [] v.t = "str"   -> Len(v.s) > 0
      [] OTHER         -> TRUE

\* a || b
OrElse(a, b) == IF Truthy(a) THEN a ELSE b

HasProp(o, k) == \E i \in 1..Len(o) : o[i].k = k

\* o.k (undefined when the property is missing)
Get(o, k) ==
    IF HasProp(o, k) THEN o[CHOOSE i \in 1..Len(o) : o[i].k = k].v ELSE Undef

\* o.k = v: an existing property keeps its position, a new one is appended
Put(o, k, v) ==
    IF HasProp(o, k)
    THEN [i \in 1..Len(o) |-> IF o[i].k = k THEN [k |-> k, v |-> v] ELSE o[i]]
    ELSE Append(o, [k |-> k, v |-> v])

\* { ...a, ...b }
RECURSIVE Spread(_, _)
Spread(a, b) == IF b = <<>> THEN a ELSE Spread(Put(a, Head(b).k, Head(b).v), Tail(b))

PropName(k) ==
    CASE k = "genres"     -> <<103,101,110,114,101,115>>
      [] k = "authors"    -> <<97,117,116,104,111,114,115>>
      [] k = "minRating"  -> <<109,105,110,82,97,116,105,110,103>>
      [] k = "maxResults" -> <<109,97,120,82,101,115,117,108,116,115>>

RECURSIVE JoinComma(_)
JoinComma(parts) ==
    IF parts = <<>> THEN <<>>
    ELSE IF Len(parts) = 1 THEN parts[1]
    ELSE parts[1] \o <<44>> \o JoinComma(Tail(parts))

RECURSIVE QuoteChars(_)
QuoteChars(s) ==
    IF s = <<>> THEN <<>>
    ELSE (IF Head(s) \in {34, 92} THEN <<92, Head(s)>> ELSE <<Head(s)>>)
         \o QuoteChars(Tail(s))

JsonString(s) == <<34>> \o QuoteChars(s) \o <<34>>

JsonValue(v) ==
    CASE v.t = "num" -> NumToString(v.n)
      [] v.t = "str" -> JsonString(v.s)
      [] v.t = "arr" -> <<91>> \o JoinComma([i \in 1..Len(v.a) |-> JsonString(v.a[i])]) \o <<93>>
      [] OTHER       -> <<>>

\* JSON.stringify of an object: properties in insertion order, undefined ones dropped
JsonStringify(o) ==
    LET defined == SelectSeq(o, LAMBDA p : p.v.t # "undef")
    IN  <<123>> \o
        JoinComma([i \in 1..Len(defined) |->
                     JsonString(PropName(defined[i].k)) \o <<58>> \o JsonValue(defined[i].v)])
        \o <<125>>

----------------------------------------------------------------------------
(* btoa *)

B64Char(x) ==
    IF x < 26 THEN 65 + x
    ELSE IF x < 52 THEN 97 + (x - 26)
    ELSE IF x < 62 THEN 48 + (x - 52)
    ELSE IF x = 62 THEN 43 ELSE 47

\* btoa throws InvalidCharacterError on a code unit above 0xFF
BtoaThrows(s) == \E i \in 1..Len(s) : s[i] > 255

Btoa(s) ==
    LET n == Len(s)
        byte(i) == IF i <= n THEN s[i] ELSE 0
        out(j) ==
            LET g == (j - 1) \div 4
                p == (j - 1) % 4
                triple == byte(3*g + 1) * 65536 + byte(3*g + 2) * 256 + byte(3*g + 3)
                sextet == CASE p = 0 -> triple \div 262144
                            [] p = 1 -> (triple \div 4096) % 64
                            [] p = 2 -> (triple \div 64) % 64
                            [] OTHER -> triple % 64
            IN  IF p = 2 /\ 3*g + 2 > n THEN 61
                ELSE IF p = 3 /\ 3*g + 3 > n THEN 61
                ELSE B64Char(sextet)
    IN  [j \in 1..(4 * ((n + 2) \div 3)) |-> out(j)]

IsAlnum(c) == c \in 48..57 \/ c \in 65..90 \/ c \in 97..122

----------------------------------------------------------------------------
(* BookAPI: cache key and cache.  The Map is its keys in insertion order   *)
(* (order) and the entry [key, data, timestamp] of each key (entries).     *)

cacheTimeout == 5 * 60 * 1000
MaxCacheSize == 50

\* generateCacheKey: `${query.toLowerCase()}_${JSON.stringify(preferences)}`,
\* base64-encoded, with every non-alphanumeric character removed
KeyText(query, preferences) == ToLowerCase(query.s) \o <<95>> \o JsonStringify(preferences)

generateCacheKey(query, preferences) ==
    SelectSeq(Btoa(KeyText(query, preferences)), IsAlnum)

\* the exception generateCacheKey throws ("" when it returns normally)
generateCacheKeyThrows(query, preferences) ==
    IF query.t # "str" THEN "TypeError"
    ELSE IF BtoaThrows(KeyText(query, preferences)) THEN "InvalidCharacterError"
    ELSE ""

EmptyMap == [order |-> <<>>, entries |-> <<>>]
MapSize(c) == Len(c.order)
MapHas(c, key) == key \in DOMAIN c.entries
MapGet(c, key) == c.entries[key]
MapDelete(c, key) ==
    IF ~MapHas(c, key) THEN c
    ELSE [order |-> SelectSeq(c.order, LAMBDA k : k # key),
          entries |-> [k \in DOMAIN c.entries \ {key} |-> c.entries[k]]]
\* Map.prototype.set: an existing key keeps its position in the iteration order
MapSet(c, key, data, t) ==
    LET e == [key |-> key, data |-> data, timestamp |-> t]
    IN  IF MapHas(c, key)
        THEN [c EXCEPT !.entries[key] = e]
        ELSE [order |-> Append(c.order, key), entries |-> (key :> e) @@ c.entries]

\* getFromCache with the timeout taken in seconds
getFromCache_Seconds(c, key, t) ==
    IF ~MapHas(c, key) THEN [outcome |-> "miss", cache |-> c]
    ELSE IF t - MapGet(c, key).timestamp > 5 * 60
         THEN [outcome |-> "expired", cache |-> MapDelete(c, key)]
         ELSE [outcome |-> "hit", cache |-> c]

\* getFromCache without the expiry test
getFromCache_NoExpiry(c, key, t) ==
    IF ~MapHas(c, key) THEN [outcome |-> "miss", cache |-> c]
    ELSE [outcome |-> "hit", cache |-> c]

\* getFromCache sweeping every expired entry when it finds the one it reads expired
getFromCache_Sweep(c, key, t) ==
    IF ~MapHas(c, key) THEN [outcome |-> "miss", cache |-> c]
    ELSE IF t - MapGet(c, key).timestamp > cacheTimeout
         THEN LET keep == {k \in DOMAIN c.entries : t - c.entries[k].timestamp <= cacheTimeout}
              IN  [outcome |-> "expired",
                   cache |-> [order |-> SelectSeq(c.order, LAMBDA k : k \in keep),
                              entries |-> [k \in keep |-> c.entries[k]]]]
         ELSE [outcome |-> "hit", cache |-> c]

\* variant: a hit refreshes the entry (moved to the end, timestamp t)
getFromCache_Touch(c, key, t) ==
    IF ~MapHas(c, key) THEN [outcome |-> "miss", cache |-> c]
    ELSE IF t - MapGet(c, key).timestamp > cacheTimeout
         THEN [outcome |-> "expired", cache |-> MapDelete(c, key)]
         ELSE [outcome |-> "hit",
               cache |-> MapSet(MapDelete(c, key), key, MapGet(c, key).data, t)]

\* getFromCache(key) at time t: [outcome, cache'] with the entry read
getFromCache(c, key, t) ==
    IF ~MapHas(c, key) THEN [outcome |-> "miss", cache |-> c]
    ELSE IF t - MapGet(c, key).timestamp > cacheTimeout
         THEN [outcome |-> "expired", cache |-> MapDelete(c, key)]
         ELSE [outcome |-> "hit", cache |-> c]

\* setCache without the clean-up of the oldest key
setCache_NoCleanup(c, key, data, t) == MapSet(c, key, data, t)

\* setCache(key, data) at time t
setCache(c, key, data, t) ==
    LET c1 == MapSet(c, key, data, t)
    IN  IF MapSize(c1) > MaxCacheSize THEN MapDelete(c1, Head(c1.order)) ELSE c1

----------------------------------------------------------------------------
(* Response bodies.  fields is the set of properties present in the JSON.  *)

NoBody ==
    [fields |-> {}, success |-> FALSE, error |-> "", message |-> "", query |-> Undef,
     recommendations |-> <<>>, totalResults |-> 0, fallback |-> FALSE, timestamp |-> 0]

ErrorBody(err) ==
    [NoBody EXCEPT !.fields = {"success", "error"}, !.error = err]

ErrorMessageBody(err, msg) ==
    [NoBody EXCEPT !.fields = {"success", "error", "message"}, !.error = err, !.message = msg]

NoResponse == [status |-> 0, body |-> NoBody]

----------------------------------------------------------------------------
(* The ML scoring service as seen by axios.post: a reply                   *)
(*   [t |-> "ok", recs, hasRecs, total, hasTotal]  (HTTP 200 with data), or *)
(*   [t |-> "err", code, status, error, message]   (a rejected promise).   *)
(* nullData: the body of the HTTP reply is the JSON value null.            *)

MlOk(recs, hasRecs, total, hasTotal) ==
    [t |-> "ok", code |-> "", status |-> 200, recs |-> recs, hasRecs |-> hasRecs,
     total |-> total, hasTotal |-> hasTotal, error |-> "", message |-> "",
     nullData |-> FALSE]

MlErr(code, status, error, message) ==
    [t |-> "err", code |-> code, status |-> status, recs |-> <<>>, hasRecs |-> FALSE,
     total |-> 0, hasTotal |-> FALSE, error |-> error, message |-> message,
     nullData |-> FALSE]

NoMl == MlErr("", 0, "", "")

\* an HTTP reply with this status whose body is null
MlNull(status) ==
    IF status = 200 THEN [MlOk(<<>>, FALSE, 0, FALSE) EXCEPT !.nullData = TRUE]
    ELSE [MlErr("ERR_BAD_REQUEST", status, "", "") EXCEPT !.nullData = TRUE]

\* connection refused, DNS failure, socket timeout, axios timeout of 30 s
Unreachable == {"ECONNREFUSED", "ENOTFOUND", "ETIMEDOUT", "ECONNABORTED"}

----------------------------------------------------------------------------
(* Express server: POST /api/recommendations *)

MaxQueryLength == 500
MaxResultsCeiling == 20
DefaultMaxResults == 10

\* the input validation of the endpoint: the 400 response, or NoResponse to go on
ValidateRequest(query) ==
    IF ~Truthy(query) \/ query.t # "str" \/ Len(Trim(query.s)) < 2
    THEN [status |-> 400, body |-> ErrorBody("Query must be a string with at least 2 characters")]
    ELSE IF Len(query.s) > MaxQueryLength
    THEN [status |-> 400, body |-> ErrorBody("Query is too long (max 500 characters)")]
    ELSE NoResponse

Min(a, b) == IF a <= b THEN a ELSE b

\* the request prepared for the ML service
MlRequest(query, preferences) ==
    LET mr == OrElse(Get(preferences, "maxResults"), Num(DefaultMaxResults))
    IN  [query |-> Str(Trim(query.s)),
         preferences |->
            Spread(<<[k |-> "genres", v |-> OrElse(Get(preferences, "genres"), Arr(<<>>))],
                     [k |-> "authors", v |-> OrElse(Get(preferences, "authors"), Arr(<<>>))],
                     [k |-> "minRating", v |-> OrElse(Get(preferences, "minRating"), Num(0))],
                     [k |-> "maxResults", v |-> Num(Min(mr.n, MaxResultsCeiling))]>>,
                   preferences)]

\* res.json({success: true, ...}) after the ML service answered
SuccessResponse(query, ml, t) ==
    [status |-> 200,
     body |-> [NoBody EXCEPT
                 !.fields = {"success", "query", "recommendations", "totalResults",
                             "timestamp", "processingTime"},
                 !.success = TRUE,
                 !.query = query,
                 !.recommendations = IF ml.hasRecs THEN ml.recs ELSE <<>>,
                 !.totalResults = IF ml.hasTotal THEN ml.total ELSE 0,
                 !.timestamp = t]]

\* the catch block of the endpoint
CatchResponse(err) ==
    IF err.code = "ECONNREFUSED"
    THEN [status |-> 503,
          body |-> ErrorMessageBody("Recommendation service is temporarily unavailable",
                                    "Please try again in a few moments")]
    ELSE IF err.status = 400
    THEN [status |-> 400,
          body |-> ErrorMessageBody(IF err.error # "" THEN err.error ELSE "Invalid request",
                                    IF err.message # "" THEN err.message
                                    ELSE "Please check your input")]
    ELSE IF err.code \in {"ENOTFOUND", "ETIMEDOUT"}
    THEN [status |-> 503,
          body |-> ErrorMessageBody("Service temporarily unavailable", "Please try again later")]
    ELSE [status |-> 500,
          body |-> ErrorMessageBody("Internal server error",
                     "An unexpected error occurred while processing your request")]

\* mlResponse.data.recommendations throws a TypeError in the try block
TryThrows(reply) == reply.t = "ok" /\ reply.nullData

\* error.response.data.error throws a TypeError in the catch block itself: the
\* handler's promise rejects and no response is sent
CatchThrows(err) == err.t = "err" /\ err.code # "ECONNREFUSED" /\ err.status = 400 /\ err.nullData

\* the fixed substitute list of POST /api/recommendations/fallback
mockRecommendations == <<1, 2, 3>>

\* variant: the fallback response is not marked as one
FallbackResponse_Unmarked(query) ==
    [status |-> 200,
     body |-> [NoBody EXCEPT
                 !.fields = {"success", "query", "recommendations", "totalResults"},
                 !.success = TRUE,
                 !.query = query,
                 !.recommendations = mockRecommendations,
                 !.totalResults = Len(mockRecommendations)]]

\* POST /api/recommendations/fallback
FallbackResponse(query) ==
    [status |-> 200,
     body |-> [NoBody EXCEPT
                 !.fields = {"success", "query", "recommendations", "totalResults", "fallback"},
                 !.success = TRUE,
                 !.query = query,
                 !.recommendations = mockRecommendations,
                 !.totalResults = Len(mockRecommendations),
                 !.fallback = TRUE]]

----------------------------------------------------------------------------
(* The batch endpoint: POST /api/batch-recommendations *)

MaxBatchQueries == 10

\* variant: no cap on the number of queries
ValidateBatch_NoCap(queries) ==
    IF ~Truthy(queries) \/ queries.t # "arr" \/ Len(queries.a) = 0
    THEN [status |-> 400, body |-> ErrorBody("Queries must be a non-empty array")]
    ELSE NoResponse

\* the two checks on req.body.queries: the 400 response, or NoResponse when it passes
ValidateBatch(queries) ==
    IF ~Truthy(queries) \/ queries.t # "arr" \/ Len(queries.a) = 0
    THEN [status |-> 400, body |-> ErrorBody("Queries must be a non-empty array")]
    ELSE IF Len(queries.a) > MaxBatchQueries
    THEN [status |-> 400, body |-> ErrorBody("Maximum 10 queries allowed per batch request")]
    ELSE NoResponse

\* res.json({success: true, results: mlResponse.data.results || [], timestamp});
\* the results are kept in the recommendations field of the record
BatchSuccessResponse(ml, t) ==
    [status |-> 200,
     body |-> [NoBody EXCEPT !.fields = {"success", "results", "timestamp"},
                             !.success = TRUE,
                             !.recommendations = IF ml.hasRecs THEN ml.recs ELSE <<>>,
                             !.timestamp = t]]

\* the catch block of the batch endpoint
BatchCatchResponse ==
    [status |-> 500, body |-> ErrorBody("Failed to process batch recommendations")]

----------------------------------------------------------------------------
(* The mock server: POST /api/recommendations without an ML service *)

\* the five books of the mock endpoint
mockServerRecommendations == <<1, 2, 3, 4, 5>>

\* res.json({success: true, ...}) of the mock endpoint
MockSuccessResponse(query) ==
    [status |-> 200,
     body |-> [NoBody EXCEPT
                 !.fields = {"success", "query", "recommendations", "totalResults"},
                 !.success = TRUE,
                 !.query = query,
                 !.recommendations = mockServerRecommendations,
                 !.totalResults = Len(mockServerRecommendations)]]

\* the catch block of the mock endpoint, for a caught error with this message
MockCatchResponse(errorMessage) ==
    [status |-> 500, body |-> ErrorMessageBody("Failed to get recommendations", errorMessage)]

\* error.message of the error axios.post rejects with
AxiosMessage(err) ==
    CASE err.code = "ECONNREFUSED" -> "connect ECONNREFUSED 127.0.0.1:5000"
      [] err.code = "ENOTFOUND"    -> "getaddrinfo ENOTFOUND"
      [] err.code = "ETIMEDOUT"    -> "connect ETIMEDOUT"
      [] err.code = "ECONNABORTED" -> "timeout of 30000ms exceeded"
      [] OTHER                     -> "Request failed with status code"

----------------------------------------------------------------------------
(* Browser side: messages of thrown errors *)

HttpErrorMessage(status) ==
    CASE status = 400 -> "HTTP error! status: 400"
      [] status = 503 -> "HTTP error! status: 503"
      [] status = 500 -> "HTTP error! status: 500"
      [] OTHER        -> "HTTP error! status: other"

\* error.message.includes('fetch')
IncludesFetch(m) == m \in {"Failed to fetch", "NetworkError when attempting to fetch resource."}
\* error.message.includes('timeout')
IncludesTimeout(m) == m \in {"Request timeout"}

NoResult == [kind |-> "none", name |-> "", message |-> "", status |-> 0, data |-> NoBody]
Return(data) == [NoResult EXCEPT !.kind = "return", !.status = 200, !.data = data]
Throw(name, message) == [NoResult EXCEPT !.kind = "throw", !.name = name, !.message = message]

\* the catch block of getRecommendations: what it throws for a caught error
Rethrow(name, message) ==
    IF name = "TypeError" /\ IncludesFetch(message)
    THEN Throw("Error", "Unable to connect to the recommendation service. Please check your internet connection and try again.")
    ELSE IF IncludesTimeout(message)
    THEN Throw("Error", "The request took too long to complete. Please try again.")
    ELSE Throw(name, message)

KeyErrorMessage(query, name) ==
    IF name = "InvalidCharacterError" THEN "The string to be encoded contains characters outside of the Latin1 range."
    ELSE IF query.t = "undef" THEN "Cannot read properties of undefined (reading 'toLowerCase')"
    ELSE "query.toLowerCase is not a function"

\* the body BookAPI posts to /api/recommendations
RequestBody(query, preferences) ==
    [query |-> Str(Trim(query.s)),
     preferences |->
        Spread(<<[k |-> "genres", v |-> OrElse(Get(preferences, "genres"), Arr(<<>>))],
                 [k |-> "authors", v |-> OrElse(Get(preferences, "authors"), Arr(<<>>))],
                 [k |-> "minRating", v |-> OrElse(Get(preferences, "minRating"), Num(0))],
                 [k |-> "maxResults", v |-> OrElse(Get(preferences, "maxResults"), Num(10))]>>,
               preferences)]

----------------------------------------------------------------------------
(* UI: BookDiscoveryApp.validateInput *)

MaxInputLength == 200

\* validateInput(value): [valid, error shown afterwards, given the error shown before]
validateInput(value, shown) ==
    IF Len(value) < 2
    THEN [valid |-> FALSE,
          error |-> IF Len(value) > 0 THEN "Please enter at least 2 characters" ELSE shown]
    ELSE IF Len(value) > MaxInputLength
    THEN [valid |-> FALSE, error |-> "Search query is too long (max 200 characters)"]
    ELSE [valid |-> TRUE, error |-> ""]

----------------------------------------------------------------------------
(* ModelIntegration: query preprocessing (modelIntegration.js)             *)
(*                                                                         *)
(* Chars("by ") is the string literal 'by ' as a sequence of character     *)
(* codes.  Scores are in hundredths: 0.85 is 85, a rating of 4.5 is 450.   *)

LowerLetters == "abcdefghijklmnopqrstuvwxyz"
UpperLetters == "ABCDEFGHIJKLMNOPQRSTUVWXYZ"
DecimalDigits == "0123456789"

CharCode(c) ==
    IF \E k \in 1..26 : SubSeq(LowerLetters, k, k) = c
    THEN 96 + (CHOOSE k \in 1..26 : SubSeq(LowerLetters, k, k) = c)
    ELSE IF \E k \in 1..26 : SubSeq(UpperLetters, k, k) = c
    THEN 64 + (CHOOSE k \in 1..26 : SubSeq(UpperLetters, k, k) = c)
    ELSE IF \E k \in 1..10 : SubSeq(DecimalDigits, k, k) = c
    THEN 47 + (CHOOSE k \in 1..10 : SubSeq(DecimalDigits, k, k) = c)
    ELSE CASE c = " " -> 32
           [] c = "!" -> 33
           [] c = "'" -> 39
           [] c = "," -> 44
           [] c = "-" -> 45
           [] c = "." -> 46
           [] c = "?" -> 63

Chars(str) == [i \in 1..Len(str) |-> CharCode(SubSeq(str, i, i))]

\* String.prototype.includes
Includes(s, sub) ==
    \E i \in 0..(Len(s) - Len(sub)) : SubSeq(s, i + 1, i + Len(sub)) = sub

\* \w of a regular expression
WordChar(c) == IsAlnum(c) \/ c = 95

IsUpper(c) == c \in 65..90
LowerRange == 97..122

\* last index of the longest run of characters of S that starts at i
\* (i - 1 when s[i] is not in S)
RunEnd(s, i, S) ==
    CHOOSE j \in (i - 1)..Len(s) :
        /\ \A k \in i..j : s[k] \in S
        /\ j = Len(s) \/ s[j + 1] \notin S

\* replace(/\s+/g, ' '), from index i on
RECURSIVE CollapseSpaces(_, _)
CollapseSpaces(s, i) ==
    IF i > Len(s) THEN <<>>
    ELSE IF s[i] \in WhiteSpace
    THEN <<32>> \o CollapseSpaces(s, RunEnd(s, i, WhiteSpace) + 1)
    ELSE <<s[i]>> \o CollapseSpaces(s, i + 1)

cleanQuery(query) ==
    LET trimmed == Trim(ToLowerCase(query))
        spaced  == [i \in 1..Len(trimmed) |->
                       IF WordChar(trimmed[i]) \/ trimmed[i] \in WhiteSpace
                       THEN trimmed[i] ELSE 32]
    IN  CollapseSpaces(spaced, 1)

genreKeywords ==
    <<[category |-> Chars("mystery"),
       keywords |-> <<Chars("mystery"), Chars("detective"), Chars("crime"),
                      Chars("thriller"), Chars("suspense")>>],
      [category |-> Chars("romance"),
       keywords |-> <<Chars("romance"), Chars("love"), Chars("romantic"),
                      Chars("relationship")>>],
      [category |-> Chars("fantasy"),
       keywords |-> <<Chars("fantasy"), Chars("magic"), Chars("wizard"),
                      Chars("dragon"), Chars("medieval")>>],
      [category |-> Chars("sci-fi"),
       keywords |-> <<Chars("science fiction"), Chars("sci-fi"), Chars("space"),
                      Chars("future"), Chars("technology")>>],
      [category |-> Chars("historical"),
       keywords |-> <<Chars("historical"), Chars("history"), Chars("period"),
                      Chars("war"), Chars("ancient")>>],
      [category |-> Chars("horror"),
       keywords |-> <<Chars("horror"), Chars("scary"), Chars("ghost"),
                      Chars("supernatural"), Chars("dark")>>],
      [category |-> Chars("biography"),
       keywords |-> <<Chars("biography"), Chars("memoir"), Chars("life story"),
                      Chars("autobiography")>>],
      [category |-> Chars("self-help"),
       keywords |-> <<Chars("self-help"), Chars("motivation"), Chars("improvement"),
                      Chars("guide")>>]>>

themeKeywords ==
    <<[category |-> Chars("coming-of-age"),
       keywords |-> <<Chars("growing up"), Chars("teenager"), Chars("youth"),
                      Chars("adolescent")>>],
      [category |-> Chars("family"),
       keywords |-> <<Chars("family"), Chars("parent"), Chars("mother"),
                      Chars("father"), Chars("sibling")>>],
      [category |-> Chars("friendship"),
       keywords |-> <<Chars("friendship"), Chars("friends"), Chars("companion")>>],
      [category |-> Chars("adventure"),
       keywords |-> <<Chars("adventure"), Chars("journey"), Chars("quest"),
                      Chars("travel")>>],
      [category |-> Chars("war"),
       keywords |-> <<Chars("war"), Chars("battle"), Chars("conflict"),
                      Chars("military")>>],
      [category |-> Chars("love"),
       keywords |-> <<Chars("love"), Chars("romance"), Chars("relationship"),
                      Chars("marriage")>>],
      [category |-> Chars("death"),
       keywords |-> <<Chars("death"), Chars("loss"), Chars("grief"),
                      Chars("mourning")>>],
      [category |-> Chars("identity"),
       keywords |-> <<Chars("identity"), Chars("self-discovery"),
                      Chars("finding yourself")>>]>>

\* keywords.some(keyword => lowerQuery.includes(keyword))
SomeKeyword(lowerQuery, keywords) ==
    \E k \in 1..Len(keywords) : Includes(lowerQuery, keywords[k])

\* the categories of a table pushed by the for loop, in table order
FoundCategories(table, lowerQuery) ==
    LET found == SelectSeq(table, LAMBDA e : SomeKeyword(lowerQuery, e.keywords))
    IN  [i \in 1..Len(found) |-> found[i].category]

\* variant: the table is matched against the cleaned query
extractGenres_Cleaned(query) == FoundCategories(genreKeywords, cleanQuery(query))

extractGenres(query) == FoundCategories(genreKeywords, ToLowerCase(query))

extractThemes(query) == FoundCategories(themeKeywords, ToLowerCase(query))

NoMatch == [found |-> FALSE, capture |-> <<>>, last |-> 0]

\* /word\s+([A-Z][a-z]+\s+[A-Z][a-z]+)/ matched at index i.  Every
\* quantifier is followed by a character class disjoint from its own, so
\* the greedy match is the only one.
AuthorMatchAt(s, i, word) ==
    LET a == i + Len(word)                       \* first blank after the word
        b == RunEnd(s, a, WhiteSpace) + 1        \* capital of the first name
        c == RunEnd(s, b + 1, LowerRange) + 1    \* first blank between the names
        d == RunEnd(s, c, WhiteSpace) + 1        \* capital of the second name
        e == RunEnd(s, d + 1, LowerRange)        \* last letter of the second name
    IN  IF /\ a <= Len(s) /\ SubSeq(s, i, a - 1) = word
           /\ b > a /\ b <= Len(s) /\ IsUpper(s[b])
           /\ c > b + 1 /\ c <= Len(s)
           /\ d > c /\ d <= Len(s) /\ IsUpper(s[d])
           /\ e > d
        THEN [found |-> TRUE, capture |-> SubSeq(s, b, e), last |-> e]
        ELSE NoMatch

\* [...query.matchAll(pattern)].map(match => match[1]), searching from index from
RECURSIVE MatchAll(_, _, _)
MatchAll(s, from, word) ==
    LET hits == {i \in from..Len(s) : AuthorMatchAt(s, i, word).found}
    IN  IF hits = {} THEN <<>>
        ELSE LET i == CHOOSE h \in hits : \A j \in hits : h <= j
                 m == AuthorMatchAt(s, i, word)
             IN  <<m.capture>> \o MatchAll(s, m.last + 1, word)

\* [...new Set(a)]: the first occurrence of each element, in order
RECURSIVE Unique(_)
Unique(a) ==
    IF a = <<>> THEN <<>>
    ELSE LET init == Unique(SubSeq(a, 1, Len(a) - 1))
             last == a[Len(a)]
         IN  IF \E i \in 1..Len(init) : init[i] = last THEN init ELSE Append(init, last)

extractAuthors(query) ==
    Unique(MatchAll(query, 1, Chars("by")) \o MatchAll(query, 1, Chars("author"))
           \o MatchAll(query, 1, Chars("like")))

stopWords ==
    {Chars("the"), Chars("a"), Chars("an"), Chars("and"), Chars("or"), Chars("but"),
     Chars("in"), Chars("on"), Chars("at"), Chars("to"), Chars("for"), Chars("of"),
     Chars("with"), Chars("by"), Chars("from"), Chars("up"), Chars("about"),
     Chars("into"), Chars("through"), Chars("during"), Chars("before"),
     Chars("after"), Chars("above"), Chars("below"), Chars("between"),
     Chars("among"), Chars("is"), Chars("are"), Chars("was"), Chars("were"),
     Chars("be"), Chars("been"), Chars("being"), Chars("have"), Chars("has"),
     Chars("had"), Chars("do"), Chars("does"), Chars("did"), Chars("will"),
     Chars("would"), Chars("could"), Chars("should"), Chars("may"), Chars("might"),
     Chars("must"), Chars("can"), Chars("like"), Chars("similar"), Chars("book"),
     Chars("books"), Chars("novel"), Chars("story")}

MaxKeywords == 10

\* String.prototype.split(/\s+/)
RECURSIVE SplitSpaces(_)
SplitSpaces(s) ==
    LET blanks == {i \in 1..Len(s) : s[i] \in WhiteSpace}
    IN  IF blanks = {} THEN <<s>>
        ELSE LET i == CHOOSE b \in blanks : \A j \in blanks : b <= j
                 j == RunEnd(s, i, WhiteSpace)
             IN  <<SubSeq(s, 1, i - 1)>> \o SplitSpaces(SubSeq(s, j + 1, Len(s)))

extractKeywords(query) ==
    LET words == SelectSeq(SplitSpaces(ToLowerCase(query)),
                           LAMBDA word : Len(word) > 2 /\ word \notin stopWords)
    IN  SubSeq(words, 1, Min(Len(words), MaxKeywords))

extractFeatures(query) ==
    [genres   |-> extractGenres(query),
     authors  |-> extractAuthors(query),
     themes   |-> extractThemes(query),
     keywords |-> extractKeywords(query)]

TitleMaxLength == 30

\* variant: the genre rule is tried before the 'similar' rule
determineQueryType_GenreFirst(query) ==
    LET lowerQuery == ToLowerCase(query)
    IN  IF Includes(lowerQuery, Chars("by ")) \/ Includes(lowerQuery, Chars("author"))
        THEN "author"
        ELSE IF Len(extractGenres(query)) > 0
        THEN "genre"
        ELSE IF Includes(lowerQuery, Chars("like ")) \/ Includes(lowerQuery, Chars("similar to"))
        THEN "similar"
        ELSE IF Len(query) < TitleMaxLength /\ Len(query) > 0 /\ IsUpper(query[1])
        THEN "title"
        ELSE "description"

determineQueryType(query) ==
    LET lowerQuery == ToLowerCase(query)
    IN  IF Includes(lowerQuery, Chars("by ")) \/ Includes(lowerQuery, Chars("author"))
        THEN "author"
        ELSE IF Includes(lowerQuery, Chars("like ")) \/ Includes(lowerQuery, Chars("similar to"))
        THEN "similar"
        ELSE IF Len(extractGenres(query)) > 0
        THEN "genre"
        ELSE IF Len(query) < TitleMaxLength /\ Len(query) > 0 /\ IsUpper(query[1])
        THEN "title"
        ELSE "description"

preprocessQuery(query) ==
    [originalQuery     |-> query,
     cleanedQuery      |-> cleanQuery(query),
     extractedFeatures |-> extractFeatures(query),
     queryType         |-> determineQueryType(query),
     confidence        |-> 80]

----------------------------------------------------------------------------
(* ModelIntegration: enhancement of the recommendations                    *)

\* a > n for a number n: false when a is undefined
GreaterThan(a, n) == a.t = "num" /\ a.n > n

\* genres.some(genre => book.genre && book.genre.toLowerCase().includes(genre))
GenreMatches(book, query) ==
    LET genres == query.extractedFeatures.genres
    IN  \E i \in 1..Len(genres) :
            /\ Truthy(Get(book, "genre"))
            /\ Includes(ToLowerCase(Get(book, "genre").s), genres[i])

\* authors.some(author => book.author &&
\*     book.author.toLowerCase().includes(author.toLowerCase()))
AuthorMatches(book, query) ==
    LET authors == query.extractedFeatures.authors
    IN  \E i \in 1..Len(authors) :
            /\ Truthy(Get(book, "author"))
            /\ Includes(ToLowerCase(Get(book, "author").s), ToLowerCase(authors[i]))

\* variant: the score is not capped
calculateRelevanceScore_NoCap(book, query) ==
    OrElse(Get(book, "similarity"), Num(50)).n
        + (IF GenreMatches(book, query) THEN 10 ELSE 0)
        + (IF AuthorMatches(book, query) THEN 15 ELSE 0)

calculateRelevanceScore(book, query) ==
    LET score == OrElse(Get(book, "similarity"), Num(50)).n
                     + (IF GenreMatches(book, query) THEN 10 ELSE 0)
                     + (IF AuthorMatches(book, query) THEN 15 ELSE 0)
    IN  Min(score, 100)

\* variant: 'Highly rated' from 4.0 up
generateMatchReasons_Rated4(book, query) ==
    (IF GreaterThan(Get(book, "similarity"), 80)
     THEN <<Chars("High content similarity")>> ELSE <<>>)
    \o (IF GenreMatches(book, query) THEN <<Chars("Matching genre")>> ELSE <<>>)
    \o (IF GreaterThan(Get(book, "rating"), 400) THEN <<Chars("Highly rated")>> ELSE <<>>)

generateMatchReasons(book, query) ==
    (IF GreaterThan(Get(book, "similarity"), 80)
     THEN <<Chars("High content similarity")>> ELSE <<>>)
    \o (IF GenreMatches(book, query) THEN <<Chars("Matching genre")>> ELSE <<>>)
    \o (IF GreaterThan(Get(book, "rating"), 450) THEN <<Chars("Highly rated")>> ELSE <<>>)

\* variant: the thresholds are not strict
calculateConfidence_NotStrict(book, query) ==
    LET similarity == Get(book, "similarity")
        rating     == Get(book, "rating")
    IN  Min(70 + (IF similarity.t = "num" /\ similarity.n >= 80 THEN 20 ELSE 0)
               + (IF rating.t = "num" /\ rating.n >= 400 THEN 10 ELSE 0)
               + (IF Len(query.extractedFeatures.genres) > 0 THEN 10 ELSE 0),
            100)

calculateConfidence(book, query) ==
    Min(70 + (IF GreaterThan(Get(book, "similarity"), 80) THEN 20 ELSE 0)
           + (IF GreaterThan(Get(book, "rating"), 400) THEN 10 ELSE 0)
           + (IF Len(query.extractedFeatures.genres) > 0 THEN 10 ELSE 0),
        100)

\* { ...book, relevanceScore, matchReasons, confidence }
Enhance(book, originalQuery) ==
    Spread(book,
           <<[k |-> "relevanceScore",
              v |-> Num(calculateRelevanceScore(book, originalQuery))],
             [k |-> "matchReasons",
              v |-> Arr(generateMatchReasons(book, originalQuery))],
             [k |-> "confidence",
              v |-> Num(calculateConfidence(book, originalQuery))]>>)

\* variant: the enhanced results are returned best first
RECURSIVE SortByRelevance(_)
SortByRelevance(results) ==
    IF results = <<>> THEN <<>>
    ELSE LET best == CHOOSE i \in 1..Len(results) :
                         /\ \A j \in 1..Len(results) :
                                Get(results[j], "relevanceScore").n
                                    <= Get(results[i], "relevanceScore").n
                         /\ \A j \in 1..(i - 1) :
                                Get(results[j], "relevanceScore").n
                                    < Get(results[i], "relevanceScore").n
         IN  <<results[best]>>
                 \o SortByRelevance(SubSeq(results, 1, best - 1)
                                        \o SubSeq(results, best + 1, Len(results)))

postProcessResults_Ranked(recommendations, originalQuery) ==
    SortByRelevance([i \in 1..Len(recommendations) |->
                        Enhance(recommendations[i], originalQuery)])

postProcessResults(recommendations, originalQuery) ==
    [i \in 1..Len(recommendations) |-> Enhance(recommendations[i], originalQuery)]

----------------------------------------------------------------------------
(* State *)

VARIABLES
    cache,        \* BookAPI.cache
    now,          \* Date.now()
    calls,        \* the calls in progress, one record per slot
    warmedUp,     \* the burst of earlier queries has happened
    lastEvict,    \* history: the last eviction done by setCache
    evictedKeys,  \* history: keys ever evicted by setCache
    ui,           \* the search input: last value validated, verdict, error shown
    modelIntegration,  \* window.modelIntegration and the searches that use it
    app           \* window.bookApp (BookDiscoveryApp) and the sections of the page

vars == <<cache, now, calls, warmedUp, lastEvict, evictedKeys, ui, modelIntegration, app>>

\* two calls can be in progress together
Slots == {1, 2}

IdleCall ==
    [pc |-> "idle", via |-> "api", path |-> "/api/recommendations",
     query |-> Undef, preferences |-> <<>>,
     cacheKey |-> <<>>, lookup |-> "none", age |-> -1,
     requestBody |-> [query |-> Undef, preferences |-> <<>>],
     mlRequest |-> [query |-> Undef, preferences |-> <<>>],
     ml |-> NoMl, response |-> NoResponse, result |-> NoResult,
     startedAt |-> -1, storedAt |-> -1, fetched |-> FALSE, mlInvoked |-> FALSE,
     thrown |-> ""]

\* the searches of the page (handleSearch) whose outcomes are compared
Searches == {1, 2}

NoProcessedQuery ==
    [originalQuery |-> <<>>, cleanedQuery |-> <<>>,
     extractedFeatures |-> [genres |-> <<>>, authors |-> <<>>, themes |-> <<>>,
                            keywords |-> <<>>],
     queryType |-> "", confidence |-> 0]

IdleSearch ==
    [pc |-> "idle", query |-> <<>>, processedQuery |-> NoProcessedQuery,
     recommendations |-> <<>>, enhancedResults |-> <<>>]

\* a handleSearch of the page that uses call slot s: its position, its query and
\* the constants of its closure
IdleHandleSearch ==
    [pc |-> "idle", query |-> <<>>, processedQuery |-> NoProcessedQuery]

\* the BookDiscoveryApp after its constructor, with the sections as index.html
\* declares them (started counts the searches that passed validateInput)
NewApp ==
    [currentQuery |-> <<>>, currentResults |-> <<>>, isLoading |-> FALSE,
     buttonDisabled |-> FALSE,
     loadingSection |-> "none", resultsSection |-> "none", emptyState |-> "block",
     resultsSubtitle |-> [count |-> 0, query |-> <<>>],
     resultsGrid |-> <<>>,
     started |-> 0,
     searches |-> [s \in Slots |-> IdleHandleSearch]]

NoEvict ==
    [n |-> 0, key |-> <<>>, timestamp |-> -1, minTimestamp |-> -1, sizeBefore |-> 0,
     sizeAfter |-> 0]

Init ==
    /\ cache = EmptyMap
    /\ now = 0
    /\ calls = [s \in Slots |-> IdleCall]
    /\ warmedUp = FALSE
    /\ lastEvict = NoEvict
    /\ evictedKeys = {}
    /\ ui = [value |-> <<>>, valid |-> FALSE, error |-> ""]
    /\ modelIntegration = [isModelReady |-> FALSE, searches |-> [r \in Searches |-> IdleSearch]]
    /\ app = NewApp

SetMin(S) == CHOOSE x \in S : \A y \in S : x <= y
Entries(c) == {c.entries[k] : k \in DOMAIN c.entries}

\* setCache applied to the cache, with the history of what it removed
Store(st, key, data, t) ==
    LET c1 == MapSet(st.cache, key, data, t)
        c2 == setCache(st.cache, key, data, t)
        removed == DOMAIN c1.entries \ DOMAIN c2.entries
    IN  IF removed = {} THEN [st EXCEPT !.cache = c2]
        ELSE LET k == CHOOSE j \in removed : TRUE
             IN  [cache |-> c2,
                  lastEvict |-> [n |-> Cardinality(removed), key |-> k,
                                 timestamp |-> MapGet(c1, k).timestamp,
                                 minTimestamp |-> SetMin({MapGet(c1, j).timestamp : j \in DOMAIN c1.entries}),
                                 sizeBefore |-> MapSize(st.cache), sizeAfter |-> MapSize(c2)],
                  evictedKeys |-> st.evictedKeys \cup removed]

CacheState == [cache |-> cache, lastEvict |-> lastEvict, evictedKeys |-> evictedKeys]

----------------------------------------------------------------------------
(* Actions *)

\* BookAPI.getRecommendations(query, preferences) called in slot s, up to its first
\* await: the calls and the cache it leaves
getRecommendations(s, query, preferences) ==
    LET thrown == generateCacheKeyThrows(query, preferences)
        start == [IdleCall EXCEPT !.query = query, !.preferences = preferences,
                                  !.startedAt = now]
    IN  IF thrown # ""
        THEN [calls |-> [calls EXCEPT ![s] =
                  [start EXCEPT !.pc = "done",
                                !.result = Rethrow(thrown, KeyErrorMessage(query, thrown))]],
              cache |-> cache]
        ELSE LET key == generateCacheKey(query, preferences)
                 got == getFromCache(cache, key, now)
                 looked == [start EXCEPT !.cacheKey = key, !.lookup = got.outcome,
                              !.age = IF got.outcome = "miss" THEN -1
                                      ELSE now - MapGet(cache, key).timestamp]
             IN  [cache |-> got.cache,
                  calls |->
                    IF got.outcome = "hit"
                    THEN [calls EXCEPT ![s] =
                           [looked EXCEPT !.pc = "done",
                              !.result = Return(MapGet(cache, key).data)]]
                    ELSE IF ~Truthy(query) \/ Len(Trim(query.s)) < 2
                    THEN [calls EXCEPT ![s] =
                           [looked EXCEPT !.pc = "done",
                              !.result = Rethrow("Error",
                                 "Search query must be at least 2 characters long")]]
                    ELSE [calls EXCEPT ![s] =
                           [looked EXCEPT !.pc = "fetching", !.fetched = TRUE,
                              !.requestBody = RequestBody(query, preferences)]]]

\* a caller other than the page calls BookAPI.getRecommendations(query, preferences)
Call(s, query, preferences) ==
    /\ calls[s].pc \in {"idle", "done"}
    /\ LET e == getRecommendations(s, query, preferences)
       IN  /\ calls' = e.calls
           /\ cache' = e.cache
    /\ UNCHANGED <<now, warmedUp, lastEvict, evictedKeys, ui, modelIntegration, app>>

\* another HTTP client posts {query, preferences} to /api/recommendations
DirectPost(s, query, preferences) ==
    /\ calls[s].pc \in {"idle", "done"}
    /\ calls' = [calls EXCEPT ![s] =
          [IdleCall EXCEPT !.pc = "fetching", !.via = "http", !.query = query,
             !.preferences = preferences, !.startedAt = now,
             !.requestBody = [query |-> query, preferences |-> preferences]]]
    /\ UNCHANGED <<cache, now, warmedUp, lastEvict, evictedKeys, ui, modelIntegration, app>>

\* the endpoint receives the request: input validation, then axios.post to the ML service
ServerReceive(s) ==
    /\ calls[s].pc = "fetching"
    /\ LET body == calls[s].requestBody
           rejected == ValidateRequest(body.query)
       IN  IF rejected # NoResponse
           THEN calls' = [calls EXCEPT ![s].pc = "responded", ![s].response = rejected]
           ELSE calls' = [calls EXCEPT ![s].pc = "atML", ![s].mlInvoked = TRUE,
                                       ![s].mlRequest = MlRequest(body.query, body.preferences)]
    /\ UNCHANGED <<cache, now, warmedUp, lastEvict, evictedKeys, ui, modelIntegration, app>>

\* axios.post settles with reply: the endpoint answers (success response or catch block)
MLReply(s, reply) ==
    /\ calls[s].pc = "atML"
    /\ IF CatchThrows(reply)
       THEN calls' = [calls EXCEPT ![s].pc = "unanswered", ![s].ml = reply]
       ELSE calls' = [calls EXCEPT ![s].pc = "responded", ![s].ml = reply,
               ![s].response = IF TryThrows(reply) THEN CatchResponse(NoMl)
                               ELSE IF reply.t = "ok"
                               THEN SuccessResponse(calls[s].requestBody.query, reply, now)
                               ELSE CatchResponse(reply)]
    /\ UNCHANGED <<cache, now, warmedUp, lastEvict, evictedKeys, ui, modelIntegration, app>>

\* the mock endpoint handles the request: after its delay it answers with its books,
\* or an exception with message thrown ("" for none) reaches its catch block
MockReply(s, thrown) ==
    /\ calls[s].pc = "fetching"
    /\ calls' = [calls EXCEPT ![s].pc = "responded", ![s].thrown = thrown,
          ![s].response = IF thrown = "" THEN MockSuccessResponse(calls[s].requestBody.query)
                          ELSE MockCatchResponse(thrown)]
    /\ UNCHANGED <<cache, now, warmedUp, lastEvict, evictedKeys, ui, modelIntegration, app>>

\* getRecommendations storing the body before it looks at response.ok and data.success
Resume_StoreFirst(s) ==
    /\ calls[s].pc = "responded"
    /\ calls[s].via = "api"
    /\ LET r == calls[s].response
           st == Store(CacheState, calls[s].cacheKey, r.body, now)
       IN  /\ cache' = st.cache
           /\ lastEvict' = st.lastEvict
           /\ evictedKeys' = st.evictedKeys
           /\ calls' = [calls EXCEPT ![s].pc = "done",
                 ![s].storedAt = IF r.status \in 200..299 /\ r.body.success THEN now ELSE -1,
                 ![s].result =
                    IF r.status \notin 200..299
                    THEN Rethrow("Error",
                           IF "message" \in r.body.fields /\ r.body.message # ""
                           THEN r.body.message ELSE HttpErrorMessage(r.status))
                    ELSE IF ~r.body.success
                    THEN Rethrow("Error",
                           IF "error" \in r.body.fields /\ r.body.error # ""
                           THEN r.body.error ELSE "Failed to get recommendations")
                    ELSE Return(r.body)]
    /\ UNCHANGED <<now, warmedUp, ui, modelIntegration, app>>

\* getRecommendations of slot s resumes with the HTTP response: the calls it leaves
\* and the cache with its history
getRecommendationsResumes(s) ==
    LET r == calls[s].response
    IN  IF r.status \notin 200..299
        THEN [calls |-> [calls EXCEPT ![s].pc = "done",
                  ![s].result = Rethrow("Error",
                     IF "message" \in r.body.fields /\ r.body.message # ""
                     THEN r.body.message ELSE HttpErrorMessage(r.status))],
              st |-> CacheState]
        ELSE IF ~r.body.success
        THEN [calls |-> [calls EXCEPT ![s].pc = "done",
                  ![s].result = Rethrow("Error",
                     IF "error" \in r.body.fields /\ r.body.error # ""
                     THEN r.body.error ELSE "Failed to get recommendations")],
              st |-> CacheState]
        ELSE [calls |-> [calls EXCEPT ![s].pc = "done", ![s].storedAt = now,
                                      ![s].result = Return(r.body)],
              st |-> Store(CacheState, calls[s].cacheKey, r.body, now)]

\* getRecommendations resumes with the HTTP response
Resume(s) ==
    /\ calls[s].pc = "responded"
    /\ calls[s].via = "api"
    /\ LET e == getRecommendationsResumes(s)
       IN  /\ calls' = e.calls
           /\ cache' = e.st.cache
           /\ lastEvict' = e.st.lastEvict
           /\ evictedKeys' = e.st.evictedKeys
    /\ UNCHANGED <<now, warmedUp, ui, modelIntegration, app>>

\* the other HTTP client receives the response
HttpDone(s) ==
    /\ calls[s].pc = "responded"
    /\ calls[s].via = "http"
    /\ calls' = [calls EXCEPT ![s].pc = "done",
          ![s].result = [NoResult EXCEPT !.kind = "http", !.status = calls[s].response.status,
                                         !.data = calls[s].response.body]]
    /\ UNCHANGED <<cache, now, warmedUp, lastEvict, evictedKeys, ui, modelIntegration, app>>

\* getRecommendations of slot s resumes with fetch rejected: the calls it leaves
getRecommendationsFails(s, message) ==
    [calls EXCEPT ![s].pc = "done", ![s].result = Rethrow("TypeError", message)]

\* fetch rejects (request or response lost): TypeError with a browser-dependent message
FetchFail(s, message) ==
    /\ calls[s].pc \in {"fetching", "responded"}
    /\ calls[s].via = "api"
    /\ calls' = getRecommendationsFails(s, message)
    /\ UNCHANGED <<cache, now, warmedUp, lastEvict, evictedKeys, ui, modelIntegration, app>>

\* the handler's promise rejected unhandled and the server process ends: the pending
\* fetch rejects (nothing happens while the process stays up)
ServerGone(s) ==
    /\ calls[s].pc = "unanswered"
    /\ calls[s].via = "api"
    /\ calls' = [calls EXCEPT ![s].pc = "done",
                               ![s].result = Rethrow("TypeError", "Failed to fetch")]
    /\ UNCHANGED <<cache, now, warmedUp, lastEvict, evictedKeys, ui, modelIntegration, app>>

\* another HTTP client posts {queries} to /api/batch-recommendations
BatchPost(s, queries) ==
    /\ calls[s].pc \in {"idle", "done"}
    /\ calls' = [calls EXCEPT ![s] =
          [IdleCall EXCEPT !.pc = "batchPosted", !.via = "http",
             !.path = "/api/batch-recommendations", !.query = queries,
             !.startedAt = now,
             !.requestBody = [query |-> queries, preferences |-> <<>>]]]
    /\ UNCHANGED <<cache, now, warmedUp, lastEvict, evictedKeys, ui, modelIntegration, app>>

\* the batch endpoint receives the request: the checks on queries, then one
\* axios.post of all the queries to the ML service
BatchReceive(s) ==
    /\ calls[s].pc = "batchPosted"
    /\ LET queries == calls[s].requestBody.query
           rejected == ValidateBatch(queries)
       IN  IF rejected # NoResponse
           THEN calls' = [calls EXCEPT ![s].pc = "responded", ![s].response = rejected]
           ELSE calls' = [calls EXCEPT ![s].pc = "batchAtML", ![s].mlInvoked = TRUE,
                                       ![s].mlRequest = [query |-> queries,
                                                         preferences |-> <<>>]]
    /\ UNCHANGED <<cache, now, warmedUp, lastEvict, evictedKeys, ui, modelIntegration, app>>

\* axios.post of the batch settles with reply: the success response, or the catch
\* block (also for the TypeError of reading results of a null body)
BatchReply(s, reply) ==
    /\ calls[s].pc = "batchAtML"
    /\ calls' = [calls EXCEPT ![s].pc = "responded", ![s].ml = reply,
          ![s].response = IF reply.t = "ok" /\ ~reply.nullData
                          THEN BatchSuccessResponse(reply, now)
                          ELSE BatchCatchResponse]
    /\ UNCHANGED <<cache, now, warmedUp, lastEvict, evictedKeys, ui, modelIntegration, app>>

\* another HTTP client posts {query, preferences} to /api/recommendations/fallback:
\* the handler answers without waiting for anything
FallbackPost(s, query, preferences) ==
    /\ calls[s].pc \in {"idle", "done"}
    /\ calls' = [calls EXCEPT ![s] =
          [IdleCall EXCEPT !.pc = "responded", !.via = "http",
             !.path = "/api/recommendations/fallback", !.query = query,
             !.preferences = preferences, !.startedAt = now,
             !.requestBody = [query |-> query, preferences |-> preferences],
             !.response = FallbackResponse(query)]]
    /\ UNCHANGED <<cache, now, warmedUp, lastEvict, evictedKeys, ui, modelIntegration, app>>

\* time passes: the clock reaches a later instant t
Tick(t) ==
    /\ t > now
    /\ now' = t
    /\ UNCHANGED <<cache, calls, warmedUp, lastEvict, evictedKeys, ui, modelIntegration, app>>

\* the n-th earlier query: "q1", "q2", ...
Filler(n) == Str(<<113>> \o NumToString(n))

\* the cache keys of the earlier queries (called without preferences)
FillerKeys == [n \in 1..PreFill |-> generateCacheKey(Filler(n), <<>>)]

\* the cache after the queries from..from+n-1 have each been answered and stored at
\* time t: the first half of them, then the rest (the test on half only forces its
\* evaluation before the recursion)
RECURSIVE StoreFillers(_, _, _, _)
StoreFillers(st, from, n, t) ==
    IF n = 0 THEN st
    ELSE IF n = 1
         THEN Store(st, FillerKeys[from],
                    SuccessResponse(Filler(from), MlOk(<<1>>, TRUE, 1, TRUE), t).body, t)
         ELSE LET half == StoreFillers(st, from, n \div 2, t)
              IN  IF MapSize(half.cache) >= 0
                  THEN StoreFillers(half, from + (n \div 2), n - (n \div 2), t)
                  ELSE half

\* PreFill successful getRecommendations calls for distinct new queries, one after
\* the other, each completed before the next starts
WarmUp ==
    /\ ~warmedUp
    /\ warmedUp' = TRUE
    /\ LET st == StoreFillers(CacheState, 1, PreFill, now)
       IN  /\ cache' = st.cache
           /\ lastEvict' = st.lastEvict
           /\ evictedKeys' = st.evictedKeys
    /\ UNCHANGED <<now, calls, ui, modelIntegration, app>>

\* the 'input' event of the search box: validateInput(e.target.value)
UIInput(value) ==
    /\ LET v == validateInput(value, ui.error)
       IN  ui' = [value |-> value, valid |-> v.valid, error |-> v.error]
    /\ UNCHANGED <<cache, now, calls, warmedUp, lastEvict, evictedKeys, modelIntegration, app>>

----------------------------------------------------------------------------
(* Specification of concurrent requests and cache expiry *)

\* "ab", "cd"
Queries == {Str(<<97, 98>>), Str(<<99, 100>>)}

Preferences == {<<>>}

MlReplies ==
    {MlOk(<<1, 2>>, TRUE, 2, TRUE),
     MlErr("ECONNREFUSED", 0, "", "")}

\* clock readings, in milliseconds: either side of the five minutes
Instants == {0, 299000, 301000}

Next ==
    \/ \E s \in Slots, q \in Queries, p \in Preferences : Call(s, q, p)
    \/ \E s \in Slots : ServerReceive(s)
    \/ \E s \in Slots, reply \in MlReplies : MLReply(s, reply)
    \/ \E s \in Slots : Resume(s)
    \/ \E t \in Instants : Tick(t)

Spec == Init /\ [][Next]_vars

----------------------------------------------------------------------------
(* Specification of the cache bound: the same requests, answered by the ML *)
(* service, around a burst of earlier queries that fills the cache         *)

BoundInstants == {0, 301000}

NextBound ==
    \/ \E s \in Slots, q \in Queries, p \in Preferences : Call(s, q, p)
    \/ \E s \in Slots : ServerReceive(s)
    \/ \E s \in Slots : MLReply(s, MlOk(<<1, 2>>, TRUE, 2, TRUE))
    \/ \E s \in Slots : Resume(s)
    \/ \E t \in BoundInstants : Tick(t)
    \/ WarmUp

SpecBound == Init /\ [][NextBound]_vars

----------------------------------------------------------------------------
(* Specification of a single request at the validation boundaries: one     *)
(* request, from BookAPI or posted directly, every ML reply, and the       *)
(* search box.                                                             *)

\* undefined, 5, "", " ", "a", " a ", "a ", "ab", " ab ", "Ab", two non-Latin-1
\* letters, and strings of 200, 201, 500 and 501 letters, 499 letters inside
\* three blanks, 501 letters inside two blanks
BoundaryQueries ==
    {Undef, Num(5), Str(<<>>), Str(<<32>>), Str(<<97>>), Str(<<32, 97, 32>>),
     Str(<<97, 32>>), Str(<<97, 98>>), Str(<<32, 97, 98, 32>>), Str(<<65, 98>>),
     Str(<<960, 960>>),
     Str(Repeat(97, 200)), Str(Repeat(97, 201)), Str(Repeat(97, 500)), Str(Repeat(97, 501)),
     Str(<<32, 32>> \o Repeat(97, 499) \o <<32>>),
     Str(<<32>> \o Repeat(97, 501) \o <<32>>)}

MaxResultsValues == {-5, 0, 1, 5, 20, 21, 25}

BoundaryPreferences ==
    {<<>>} \cup {<<[k |-> "maxResults", v |-> Num(n)]>> : n \in MaxResultsValues}

\* every query without preferences, and "ab" with every preferences object
RequestInputs ==
    {<<q, <<>>>> : q \in BoundaryQueries}
    \cup {<<Str(<<97, 98>>), p>> : p \in BoundaryPreferences}

AllMlReplies ==
    {MlOk(<<1, 2>>, TRUE, 2, TRUE),
     MlOk(<<>>, FALSE, 0, FALSE),
     MlOk(<<1, 2>>, TRUE, 5, TRUE),
     MlErr("ECONNREFUSED", 0, "", ""),
     MlErr("ENOTFOUND", 0, "", ""),
     MlErr("ETIMEDOUT", 0, "", ""),
     MlErr("ECONNABORTED", 0, "", ""),
     MlErr("ERR_BAD_REQUEST", 400, "Invalid query", "Request timeout"),
     MlErr("ERR_BAD_REQUEST", 400, "", ""),
     MlErr("ERR_BAD_REQUEST", 400, "Invalid query", ""),
     MlErr("ERR_BAD_REQUEST", 422, "Unprocessable query", "The query has no words"),
     MlErr("ERR_BAD_RESPONSE", 500, "", "")}

AllFetchFailures == {"Failed to fetch", "Load failed"}

\* values of the search box
InputValues ==
    {<<>>, <<97>>, <<97, 32>>, <<32, 32>>, <<97, 98>>, <<32, 97, 98, 32>>,
     Repeat(97, 200), Repeat(97, 201), Repeat(97, 500)}

\* the first getRecommendations call of the page
FirstCall(query, preferences) == calls[1].pc = "idle" /\ Call(1, query, preferences)

\* the first request of another HTTP client
FirstPost(query, preferences) == calls[1].pc = "idle" /\ DirectPost(1, query, preferences)

\* the user types before any search is submitted
TypeInput(value) == calls[1].pc = "idle" /\ UIInput(value)

NextRequest ==
    \/ \E in \in RequestInputs : FirstCall(in[1], in[2])
    \/ \E in \in RequestInputs : FirstPost(in[1], in[2])
    \/ ServerReceive(1)
    \/ \E reply \in AllMlReplies : MLReply(1, reply)
    \/ Resume(1)
    \/ HttpDone(1)
    \/ \E m \in AllFetchFailures : FetchFail(1, m)
    \/ \E v \in InputValues : TypeInput(v)

SpecRequest == Init /\ [][NextRequest]_vars

----------------------------------------------------------------------------
(* Specification of failing requests: two callers, a valid, a too short and *)
(* a missing query, every ML reply and every failure of fetch, with the     *)
(* cache expiring in between.                                               *)

\* "ab", "a", undefined
FailureQueries == {Str(<<97, 98>>), Str(<<97>>), Undef}

FailureInstants == {0, 301000}

NextFailures ==
    \/ \E s \in Slots, q \in FailureQueries : Call(s, q, <<>>)
    \/ \E s \in Slots : ServerReceive(s)
    \/ \E s \in Slots, reply \in AllMlReplies : MLReply(s, reply)
    \/ \E s \in Slots : Resume(s)
    \/ \E s \in Slots, m \in AllFetchFailures : FetchFail(s, m)
    \/ \E t \in FailureInstants : Tick(t)

SpecFailures == Init /\ [][NextFailures]_vars

----------------------------------------------------------------------------
(* Specification of one request to either server: the endpoint that        *)
(* forwards to the ML service, with every ML reply, or the mock endpoint,  *)
(* which answers by itself or catches an exception thrown on the way.      *)

\* "ab", " ab ", "a", undefined, 501 letters
ServerQueries ==
    {Str(<<97, 98>>), Str(<<32, 97, 98, 32>>), Str(<<97>>), Undef, Str(Repeat(97, 501))}

\* messages of exceptions thrown while the mock endpoint handles a request
\* ("" for none)
MockExceptions == {"", "write EPIPE", "Cannot set headers after they are sent to the client"}

NextServers ==
    \/ \E q \in ServerQueries : FirstCall(q, <<>>)
    \/ \E q \in ServerQueries : FirstPost(q, <<>>)
    \/ ServerReceive(1)
    \/ \E reply \in AllMlReplies : MLReply(1, reply)
    \/ \E e \in MockExceptions : MockReply(1, e)
    \/ Resume(1)
    \/ HttpDone(1)

SpecServers == Init /\ [][NextServers]_vars

----------------------------------------------------------------------------
(* Specification of progress: two callers and every reply of the ML        *)
(* service.  The endpoint and the resumption of getRecommendations are     *)
(* scheduled by the event loop once enabled; axios.post always settles,    *)
(* with the reply or, after 30 s without one, with its timeout error.      *)

\* every reply of AllMlReplies, and replies whose body is null
LiveMlReplies == AllMlReplies \cup {MlNull(200), MlNull(400)}

NextLive ==
    \/ \E s \in Slots, q \in FailureQueries : Call(s, q, <<>>)
    \/ \E s \in Slots : ServerReceive(s)
    \/ \E s \in Slots, reply \in LiveMlReplies : MLReply(s, reply)
    \/ \E s \in Slots : Resume(s)
    \/ \E s \in Slots : ServerGone(s)

Fairness ==
    \A s \in Slots :
        /\ WF_vars(ServerReceive(s))
        /\ WF_vars(\E reply \in LiveMlReplies : MLReply(s, reply))
        /\ WF_vars(Resume(s))

SpecLive == Init /\ [][NextLive]_vars /\ Fairness

----------------------------------------------------------------------------
(* Specification of the cache key: a first call, then, once it has ended,  *)
(* a second call, over queries that differ in case, in surrounding blanks  *)
(* or in one character, and preferences that differ in the order of their  *)
(* fields or in spelling out a default.                                    *)

\* "ab", "AB", " ab", "ab ", "ab>", "ab?", "Ab?"
KeyQueries ==
    {Str(<<97, 98>>), Str(<<65, 66>>), Str(<<32, 97, 98>>), Str(<<97, 98, 32>>),
     Str(<<97, 98, 62>>), Str(<<97, 98, 63>>), Str(<<65, 98, 63>>)}

\* {}, {maxResults: 10}, {minRating: 4, maxResults: 5}, {maxResults: 5, minRating: 4}
KeyPreferences ==
    {<<>>,
     <<[k |-> "maxResults", v |-> Num(10)]>>,
     <<[k |-> "minRating", v |-> Num(4)], [k |-> "maxResults", v |-> Num(5)]>>,
     <<[k |-> "maxResults", v |-> Num(5)], [k |-> "minRating", v |-> Num(4)]>>}

\* a later getRecommendations call of the page, after the first one has ended
SecondCall(query, preferences) ==
    calls[1].pc = "done" /\ calls[2].pc = "idle" /\ Call(2, query, preferences)

NextKey ==
    \/ \E q \in KeyQueries, p \in KeyPreferences : FirstCall(q, p)
    \/ \E q \in KeyQueries, p \in KeyPreferences : SecondCall(q, p)
    \/ \E s \in Slots : ServerReceive(s)
    \/ \E s \in Slots : MLReply(s, MlOk(<<1, 2>>, TRUE, 2, TRUE))
    \/ \E s \in Slots : Resume(s)

SpecKey == Init /\ [][NextKey]_vars

----------------------------------------------------------------------------
(* Searches of the page: handleSearch preprocesses the query, and          *)
(* post-processes the recommendations of a successful response             *)

\* const processedQuery = window.modelIntegration.preprocessQuery(query)
PreprocessQuery(r, query) ==
    /\ modelIntegration' =
           [modelIntegration EXCEPT
               !.searches[r] = [IdleSearch EXCEPT !.pc = "processed",
                                                  !.query = query,
                                                  !.processedQuery = preprocessQuery(query)]]
    /\ UNCHANGED <<cache, now, calls, warmedUp, lastEvict, evictedKeys, ui, app>>

\* variant: the results are enhanced only once the model is ready
PostProcessResults_Ready(r, recommendations) ==
    /\ modelIntegration.searches[r].pc = "processed"
    /\ modelIntegration' =
           [modelIntegration EXCEPT
               !.searches[r].pc = "enhanced",
               !.searches[r].recommendations = recommendations,
               !.searches[r].enhancedResults =
                   IF modelIntegration.isModelReady
                   THEN postProcessResults(recommendations,
                                           modelIntegration.searches[r].processedQuery)
                   ELSE recommendations]
    /\ UNCHANGED <<cache, now, calls, warmedUp, lastEvict, evictedKeys, ui, app>>

\* const enhancedResults = window.modelIntegration.postProcessResults(
\*     response.recommendations, processedQuery)
PostProcessResults(r, recommendations) ==
    /\ modelIntegration.searches[r].pc = "processed"
    /\ modelIntegration' =
           [modelIntegration EXCEPT
               !.searches[r].pc = "enhanced",
               !.searches[r].recommendations = recommendations,
               !.searches[r].enhancedResults =
                   postProcessResults(recommendations,
                                      modelIntegration.searches[r].processedQuery)]
    /\ UNCHANGED <<cache, now, calls, warmedUp, lastEvict, evictedKeys, ui, app>>

\* initializeModel, once the timer of simulateModelLoad has fired
InitializeModel ==
    /\ ~modelIntegration.isModelReady
    /\ modelIntegration' = [modelIntegration EXCEPT !.isModelReady = TRUE]
    /\ UNCHANGED <<cache, now, calls, warmedUp, lastEvict, evictedKeys, ui, app>>

\* a recommendation as the endpoints send it (scores in hundredths)
Book(id, author, rating, genre, similarity) ==
    <<[k |-> "id", v |-> Num(id)],
      [k |-> "author", v |-> Str(Chars(author))],
      [k |-> "rating", v |-> Num(rating)],
      [k |-> "genre", v |-> Str(Chars(genre))],
      [k |-> "similarity", v |-> Num(similarity)]>>

Book1 == Book(1, "Agatha Christie", 460, "Mystery", 85)
Book2 == Book(2, "Frank Herbert", 400, "Science Fiction", 80)
Book3 == Book(3, "Stephen King", 450, "Horror", 0)
Book4 == Book(4, "Jane Austen", 401, "Romance", 81)
\* a record without author, rating, genre and similarity
Book5 == <<[k |-> "id", v |-> Num(5)]>>
Book6 == Book(6, "Agatha Christie", 451, "Mystery Thriller", 78)
Book7 == Book(7, "Hilary Mantel", 500, "Historical Fiction", 100)
Book8 == Book(8, "Dan Brown", 430, "Thriller", 85)
Book9 == Book(9, "Arthur Conan Doyle", 440, "Mystery", 85)

CandidateLists ==
    {<<>>,
     <<Book1, Book2>>,
     <<Book2, Book6>>,
     <<Book3, Book4, Book5>>,
     <<Book7, Book8, Book9>>,
     <<Book9>>}

ModelQueries ==
    {Chars("mystery novels like Agatha Christie"),
     Chars("Dune"),
     Chars("dune"),
     Chars("books by Stephen King"),
     Chars("Sci-Fi space adventure!"),
     Chars("a love story about war, family and loss"),
     Chars("The Old Man And The Sea Again"),
     Chars("The Old Man And The Sea Again!"),
     Chars("red fox one two six ten old new big hot sun"),
     <<>>,
     Chars("similar to Harry Potter"),
     Chars("favourite author Jane Austen"),
     Chars("by agatha christie"),
     Chars("by Agatha Christie"),
     Chars("sci fi"),
     Chars("Sci-Fi"),
     Chars("Baby dragon tales"),
     Chars("books like Dan Brown by Dan Brown"),
     Chars(" thrillers, like Gone Girl!"),
     Chars("a book, like the story!")}

NextEnhance ==
    \/ \E q \in ModelQueries : PreprocessQuery(1, q)
    \/ \E c \in CandidateLists : PostProcessResults(1, c)
    \/ InitializeModel

SpecEnhance == Init /\ [][NextEnhance]_vars

----------------------------------------------------------------------------
(* Two searches of the page, to compare their outcomes                     *)

RepeatQueries ==
    {Chars("mystery novels like Agatha Christie"),
     Chars("by agatha christie"),
     Chars("by Agatha Christie"),
     Chars("sci fi"),
     Chars("Sci-Fi"),
     Chars("a book, like the story!"),
     Chars("a book like the story")}

RepeatCandidates == {<<Book1, Book2>>, <<Book3, Book9>>}

NextRepeat ==
    \/ \E r \in Searches, q \in RepeatQueries : PreprocessQuery(r, q)
    \/ \E r \in Searches, c \in RepeatCandidates : PostProcessResults(r, c)
    \/ InitializeModel

SpecRepeat == Init /\ [][NextRepeat]_vars

----------------------------------------------------------------------------
(* The endpoints of the Express server, each called by an HTTP client      *)

\* req.body.queries: missing, a string, and arrays of 0, 1, 2, 10, 11 and 12 queries
BatchQueries ==
    {Undef, Str(<<97, 98>>)}
        \cup {Arr([i \in 1..n |-> <<113>> \o NumToString(i)]) : n \in {0, 1, 2, 10, 11, 12}}

\* replies of the ML service to a batch (recs stands for data.results)
BatchMlReplies ==
    {MlOk(<<1, 2>>, TRUE, 0, FALSE),
     MlOk(<<>>, FALSE, 0, FALSE),
     MlNull(200),
     MlErr("ECONNREFUSED", 0, "", ""),
     MlErr("ECONNABORTED", 0, "", ""),
     MlErr("ERR_BAD_REQUEST", 400, "Invalid query", "")}

EndpointQueries == {Undef, Str(<<>>), Str(<<97>>), Str(<<97, 98>>), Str(<<99, 100>>)}

EndpointPreferences == {<<>>, <<[k |-> "maxResults", v |-> Num(5)]>>}

EndpointMlReplies ==
    {MlOk(<<1, 2>>, TRUE, 2, TRUE),
     MlOk(<<>>, FALSE, 0, FALSE),
     MlOk(<<1, 2>>, TRUE, 0, FALSE),
     MlOk(<<1, 2>>, TRUE, 5, TRUE),
     MlErr("ECONNREFUSED", 0, "", ""),
     MlErr("ETIMEDOUT", 0, "", ""),
     MlErr("ECONNABORTED", 0, "", "")}

NextEndpoints ==
    \/ \E s \in Slots, queries \in BatchQueries : BatchPost(s, queries)
    \/ \E s \in Slots : BatchReceive(s)
    \/ \E s \in Slots, reply \in BatchMlReplies : BatchReply(s, reply)
    \/ \E s \in Slots, q \in EndpointQueries, p \in EndpointPreferences : FallbackPost(s, q, p)
    \/ \E s \in Slots, q \in EndpointQueries, p \in EndpointPreferences : DirectPost(s, q, p)
    \/ \E s \in Slots : ServerReceive(s)
    \/ \E s \in Slots, reply \in EndpointMlReplies : MLReply(s, reply)
    \/ \E s \in Slots : HttpDone(s)

SpecEndpoints == Init /\ [][NextEndpoints]_vars

----------------------------------------------------------------------------
(* BookDiscoveryApp: the page (api.js), its searches and its sections       *)

\* setLoadingState(loading)
setLoadingState(a, loading) ==
    [a EXCEPT !.isLoading = loading,
              !.buttonDisabled = loading,
              !.loadingSection = IF loading THEN "block" ELSE "none",
              !.resultsSection = IF loading THEN "none" ELSE "block",
              !.emptyState = IF loading THEN "none" ELSE "block"]

\* generateStars(book.rating || 0): the count of the last repeat(), which throws a
\* RangeError when it is negative (the rating is in hundredths)
EmptyStars(book) ==
    LET rating == OrElse(Get(book, "rating"), Num(0)).n
    IN  5 - (rating \div 100) - (IF rating % 100 >= 50 THEN 1 ELSE 0)

\* createBookCard(book, index) throws
CardThrows(book) == EmptyStars(book) < 0

\* displayResults(results, query): the app afterwards, and the message of the
\* error thrown by the first card that cannot be built ("" when none is)
displayResults(a, results, query) ==
    LET failing == {i \in 1..Len(results) : CardThrows(results[i])}
        shown == [a EXCEPT !.currentResults = results,
                           !.resultsSubtitle = [count |-> Len(results), query |-> query]]
    IN  IF failing = {}
        THEN [app |-> [shown EXCEPT !.resultsGrid = results,
                                    !.resultsSection = "block",
                                    !.emptyState = "none"],
              thrown |-> ""]
        ELSE LET first == CHOOSE i \in failing : \A j \in failing : i <= j
             IN  [app |-> [shown EXCEPT !.resultsGrid = SubSeq(results, 1, first - 1)],
                  thrown |-> "Invalid count value: "
                                \o ToString(EmptyStars(results[first]))]

\* variant: the results are written into the books of the response
postProcessResultsLeaves_InPlace(recommendations, originalQuery) ==
    postProcessResults(recommendations, originalQuery)

\* the array response.recommendations as postProcessResults leaves it: map builds
\* a new array and the spread a new object for each book
postProcessResultsLeaves(recommendations, originalQuery) == recommendations

\* handleSearch of slot s once getRecommendations has settled with result, the
\* error message being shown: the app and the message afterwards, and the state
\* in which the response object is left (data)
handleSearchSettles(a, s, result, shown) ==
    LET mine == a.searches[s]
        response == result.data
    IN  IF result.kind = "return" /\ response.success
               /\ "recommendations" \in response.fields
        THEN LET enhancedResults ==
                     postProcessResults(response.recommendations, mine.processedQuery)
                 d == displayResults(a, enhancedResults, mine.query)
             IN  [app |-> setLoadingState(
                            [d.app EXCEPT !.searches[s].pc =
                                IF d.thrown = "" THEN "displayed" ELSE "failed"], FALSE),
                  error |-> IF d.thrown = "" THEN shown ELSE d.thrown,
                  data |-> [response EXCEPT !.recommendations =
                              postProcessResultsLeaves(response.recommendations,
                                                       mine.processedQuery)]]
        ELSE [app |-> setLoadingState([a EXCEPT !.searches[s].pc = "failed"], FALSE),
              error |-> IF result.kind = "throw" THEN result.message
                        ELSE "No recommendations found",
              data |-> response]

\* the cache c in which the entry of key holds the response object, left as data
\* by the caller that received it
Shared(c, key, data) ==
    IF MapHas(c, key) THEN [c EXCEPT !.entries[key].data = data] ELSE c

\* the searches a run of the page starts
MaxSearches == 2

\* the slots in which getRecommendations can be called
FreeSlots == {s \in Slots : calls[s].pc \in {"idle", "done"}}

\* handleSearch() with value in the search box, its call of getRecommendations
\* taking the first free slot; when getRecommendations settles without waiting
\* (cache hit), so does handleSearch
HandleSearch(value) ==
    LET query == Trim(value)
        v == validateInput(query, ui.error)
    IN  IF ~v.valid
        THEN /\ ui' = [value |-> value, valid |-> FALSE, error |-> v.error]
             /\ UNCHANGED <<cache, calls, app>>
        ELSE /\ FreeSlots # {}
             /\ app.started < MaxSearches
             /\ LET s == SetMin(FreeSlots)
                    processedQuery == preprocessQuery(query)
                    started == [setLoadingState([app EXCEPT !.currentQuery = query], TRUE)
                                  EXCEPT !.started = @ + 1,
                                         !.searches[s] =
                                            [pc |-> "awaiting", query |-> query,
                                             processedQuery |-> processedQuery]]
                    e == getRecommendations(s, Str(query), <<>>)
                IN  /\ calls' = e.calls
                    /\ IF e.calls[s].pc = "done"
                       THEN LET out == handleSearchSettles(started, s,
                                                           e.calls[s].result, "")
                            IN  /\ app' = out.app
                                /\ ui' = [value |-> value, valid |-> TRUE,
                                          error |-> out.error]
                                /\ cache' = IF e.calls[s].result.kind = "return"
                                            THEN Shared(e.cache, e.calls[s].cacheKey,
                                                        out.data)
                                            ELSE e.cache
                       ELSE /\ app' = started
                            /\ ui' = [value |-> value, valid |-> TRUE, error |-> ""]
                            /\ cache' = e.cache

\* the 'submit' event of the search form (the button, or Enter in the search box)
SubmitSearch ==
    /\ ~app.buttonDisabled
    /\ HandleSearch(ui.value)
    /\ UNCHANGED <<now, warmedUp, lastEvict, evictedKeys, modelIntegration>>

\* the data-search attribute of the second of the four example tags of index.html
ExampleTags == {Chars("romantic fantasy books")}

\* a click on an example tag, which is inside the empty-state section
TagClick(tag) ==
    /\ app.emptyState = "block"
    /\ HandleSearch(tag)
    /\ UNCHANGED <<now, warmedUp, lastEvict, evictedKeys, modelIntegration>>

\* the Escape key: clearSearch()
ClearSearch ==
    /\ ui' = [ui EXCEPT !.value = <<>>, !.error = ""]
    /\ app' = [app EXCEPT !.resultsSection = "none",
                          !.loadingSection = "none",
                          !.emptyState = "block",
                          !.currentQuery = <<>>,
                          !.currentResults = <<>>]
    /\ UNCHANGED <<cache, now, calls, warmedUp, lastEvict, evictedKeys, modelIntegration>>

\* getRecommendations of the search of slot s resumes with the HTTP response, and
\* handleSearch with what it returns or throws
SearchResumes(s) ==
    /\ calls[s].pc = "responded"
    /\ calls[s].via = "api"
    /\ app.searches[s].pc = "awaiting"
    /\ LET e == getRecommendationsResumes(s)
           out == handleSearchSettles(app, s, e.calls[s].result, ui.error)
       IN  /\ calls' = e.calls
           /\ lastEvict' = e.st.lastEvict
           /\ evictedKeys' = e.st.evictedKeys
           /\ cache' = IF e.calls[s].result.kind = "return"
                       THEN Shared(e.st.cache, calls[s].cacheKey, out.data)
                       ELSE e.st.cache
           /\ app' = out.app
           /\ ui' = [ui EXCEPT !.error = out.error]
    /\ UNCHANGED <<now, warmedUp, modelIntegration>>

\* fetch of the search of slot s rejects, and handleSearch shows the error
SearchFails(s, message) ==
    /\ calls[s].pc \in {"fetching", "responded"}
    /\ calls[s].via = "api"
    /\ app.searches[s].pc = "awaiting"
    /\ LET after == getRecommendationsFails(s, message)
           out == handleSearchSettles(app, s, after[s].result, ui.error)
       IN  /\ calls' = after
           /\ app' = out.app
           /\ ui' = [ui EXCEPT !.error = out.error]
    /\ UNCHANGED <<cache, now, warmedUp, lastEvict, evictedKeys, modelIntegration>>

\* a book rated 5.5
Book10 == Book(10, "Agatha Christie", 550, "Mystery", 90)

\* what is typed in the search box: "ab"
AppInputs == {<<97, 98>>}

AppMlReplies ==
    {MlOk(<<Book1, Book6>>, TRUE, 2, TRUE),
     MlOk(<<Book1, Book10>>, TRUE, 2, TRUE),
     MlErr("ECONNREFUSED", 0, "", "")}

NextApp ==
    \/ \E v \in AppInputs : UIInput(v)
    \/ SubmitSearch
    \/ \E tag \in ExampleTags : TagClick(tag)
    \/ ClearSearch
    \/ \E s \in Slots : ServerReceive(s)
    \/ \E s \in Slots, reply \in AppMlReplies : MLReply(s, reply)
    \/ \E s \in Slots : SearchResumes(s)
    \/ \E s \in Slots : SearchFails(s, "Failed to fetch")

SpecApp == Init /\ [][NextApp]_vars

----------------------------------------------------------------------------
(* Properties *)

Done(s) == calls[s].pc = "done"
TrimmedLength(q) == Len(Trim(q.s))

\* C1: when the ML service is unreachable or times out, the request still ends
\* with success = true, fallback = true and a non-empty recommendations list.
\* (This is the claim as stated; the endpoint answers 503 or 500 instead.)
C1_FallbackWhenUnreachable ==
    \A s \in Slots :
        (Done(s) /\ calls[s].ml.t = "err" /\ calls[s].ml.code \in Unreachable)
        => /\ calls[s].result.kind \in {"return", "http"}
           /\ calls[s].result.data.success
           /\ "fallback" \in calls[s].result.data.fields
           /\ calls[s].result.data.fallback
           /\ calls[s].result.data.recommendations # <<>>

\* C2 as stated: of two calls with the same query and preferences started within
\* five minutes of each other, whatever their relative timing, at most one issues a
\* request (the entry not having been evicted).
C2_AnyTimingOneRequest ==
    \A s1, s2 \in Slots :
        (/\ s1 # s2
         /\ calls[s1].pc # "idle" /\ calls[s2].pc # "idle"
         /\ calls[s1].query = calls[s2].query
         /\ calls[s1].preferences = calls[s2].preferences
         /\ calls[s2].startedAt - calls[s1].startedAt \in 0..cacheTimeout
         /\ calls[s1].cacheKey \notin evictedKeys)
        => ~(calls[s1].fetched /\ calls[s2].fetched)

\* C2 amended: when a call has stored its response and a call with the same query
\* and preferences starts later, at most five minutes after that store, the entry not
\* having been evicted, the later call is answered from the cache with a stored
\* successful response and issues no request.
C2_LaterCallHitsCache ==
    \A s1, s2 \in Slots :
        (/\ s1 # s2
         /\ Done(s1) /\ calls[s1].storedAt >= 0
         /\ calls[s2].pc # "idle"
         /\ calls[s1].query = calls[s2].query
         /\ calls[s1].preferences = calls[s2].preferences
         /\ calls[s2].startedAt > calls[s1].storedAt
         /\ calls[s2].startedAt - calls[s1].storedAt <= cacheTimeout
         /\ calls[s1].cacheKey \notin evictedKeys)
        => /\ calls[s2].lookup = "hit"
           /\ ~calls[s2].fetched
           /\ Done(s2)
           /\ calls[s2].result.kind = "return"
           /\ calls[s2].result.data.success
           /\ calls[s2].result.data.query = Str(Trim(calls[s1].query.s))

C2_Witness ==
    \E s1, s2 \in Slots :
        /\ s1 # s2
        /\ Done(s1) /\ calls[s1].storedAt = 0 /\ calls[s1].fetched
        /\ calls[s2].query = calls[s1].query
        /\ calls[s2].startedAt = 299000
        /\ calls[s2].lookup = "hit" /\ Done(s2) /\ ~calls[s2].fetched

\* C3: getFromCache never returns an entry older than the five minutes: a read of an
\* entry is a hit only at an age of at most cacheTimeout; at an age of 299 s it is a
\* hit answered from the cache, at 301 s it is a miss and the entry is gone.
C3_ExpiredNeverHit ==
    \A s \in Slots :
        /\ calls[s].lookup = "hit" => calls[s].age \in 0..cacheTimeout
        /\ calls[s].lookup = "hit" => (Done(s) /\ calls[s].result.kind = "return" /\ ~calls[s].fetched)
        /\ calls[s].age = 299000 => calls[s].lookup = "hit"
        /\ calls[s].age = 301000 => (calls[s].lookup = "expired" /\ calls[s].fetched)

C3_Witness ==
    \E s1, s2 \in Slots :
        /\ calls[s1].age = 299000 /\ calls[s1].lookup = "hit"
        /\ calls[s2].age = 301000 /\ calls[s2].lookup = "expired"

\* C4: the cache never holds more than 50 entries in any state another operation
\* can see, and an insertion that evicts removes exactly one entry, from a cache of
\* 50, and leaves 50.
C4_CacheBound ==
    /\ MapSize(cache) <= MaxCacheSize
    /\ lastEvict.n > 0 =>
         (lastEvict.n = 1 /\ lastEvict.sizeBefore = MaxCacheSize
          /\ lastEvict.sizeAfter = MaxCacheSize)

C4_Witness ==
    /\ lastEvict.n = 1
    /\ MapSize(cache) = MaxCacheSize
    /\ \E s \in Slots : Done(s) /\ calls[s].storedAt >= 0 /\ MapHas(cache, calls[s].cacheKey)

\* C5: the entry setCache evicts has the smallest timestamp of all entries.
\* (This is the claim as stated; a key stored twice keeps its place in the Map.)
C5_EvictsSmallestTimestamp ==
    lastEvict.n > 0 => lastEvict.timestamp = lastEvict.minTimestamp

\* C6: every cached value is a successful response without fallback = true, and a
\* call that ends in an error adds no entry to the cache and overwrites none.
C6_CacheOnlySuccess ==
    /\ [](\A e \in Entries(cache) :
            e.data.success /\ ~("fallback" \in e.data.fields /\ e.data.fallback))
    /\ [][\A s \in Slots :
            (calls'[s] # calls[s] /\ calls'[s].pc = "done" /\ calls'[s].result.kind = "throw")
            => Entries(cache') \subseteq Entries(cache)]_vars

C6_Witness ==
    \E s1, s2 \in Slots :
        /\ Done(s1) /\ calls[s1].storedAt >= 0 /\ calls[s1].result.kind = "return"
        /\ Done(s2) /\ calls[s2].fetched /\ calls[s2].result.kind = "throw"
        /\ calls[s2].cacheKey = calls[s1].cacheKey
        /\ MapSize(cache) = 1 /\ MapGet(cache, calls[s1].cacheKey).data = calls[s1].result.data

\* the query is missing or not a string, too short once trimmed, or too long
InvalidQuery(q) == q.t # "str" \/ TrimmedLength(q) < 2 \/ Len(q.s) > MaxQueryLength

ServerValidationErrors ==
    {"Query must be a string with at least 2 characters",
     "Query is too long (max 500 characters)"}

\* the endpoint has received and validated the request of call s
Received(s) == calls[s].mlInvoked \/ calls[s].response # NoResponse

\* the endpoint answered the request of call s with a validation error
RejectedByServer(s) ==
    /\ calls[s].response.status = 400
    /\ ~calls[s].response.body.success
    /\ calls[s].response.body.error \in ServerValidationErrors
    /\ ~calls[s].mlInvoked

\* BookAPI threw its own validation error in call s
RejectedByBookAPI(s) ==
    /\ calls[s].via = "api"
    /\ Done(s)
    /\ calls[s].result.kind = "throw"
    /\ calls[s].result.name = "Error"
    /\ calls[s].result.message = "Search query must be at least 2 characters long"

\* call s ended with a validation error, raised by BookAPI or returned by the endpoint
ValidationFailure(s) ==
    IF calls[s].via = "http"
    THEN calls[s].result.kind = "http" /\ calls[s].result.status = 400 /\ RejectedByServer(s)
    ELSE \/ RejectedByBookAPI(s)
         \/ (calls[s].result.kind = "throw" /\ calls[s].result.name = "Error"
             /\ RejectedByServer(s))

\* C7: every invalid query fails with the validation error, and with no other error,
\* and the ML service is never invoked for it.
\* (This is the claim as stated; BookAPI computes the cache key before it validates.)
C7_InvalidQueryRejected ==
    \A s \in Slots :
        (Done(s) /\ InvalidQuery(calls[s].query))
        => (~calls[s].mlInvoked /\ ValidationFailure(s))

\* C8: in each validating layer a query of trimmed length 2 passes validation and a
\* query of trimmed length 1 or 0 fails it.
\* (This is the claim as stated; validateInput measures the untrimmed value.)
C8_LowerBoundInclusive ==
    /\ Len(Trim(ui.value)) = 2 => ui.valid
    /\ Len(Trim(ui.value)) < 2 => ~ui.valid
    /\ \A s \in Slots :
         (calls[s].pc # "idle" /\ calls[s].query.t = "str")
         => /\ (calls[s].via = "api" /\ TrimmedLength(calls[s].query) = 2)
                 => ~RejectedByBookAPI(s)
            /\ (calls[s].via = "api" /\ TrimmedLength(calls[s].query) < 2)
                 => (RejectedByBookAPI(s) /\ ~calls[s].fetched)
            /\ (Received(s) /\ TrimmedLength(calls[s].requestBody.query) = 2)
                 => ~RejectedByServer(s)
            /\ (Received(s) /\ TrimmedLength(calls[s].requestBody.query) < 2)
                 => RejectedByServer(s)

\* C9: in each validating layer every string of trimmed length 2..500 is accepted,
\* surrounding blanks included, and a query of trimmed length above 500 never reaches
\* the ML service.
\* (This is the claim as stated; the endpoint measures the untrimmed length and
\* validateInput stops at 200.)
C9_UpperBoundOnTrimmedLength ==
    /\ Len(Trim(ui.value)) \in 2..MaxQueryLength => ui.valid
    /\ \A s \in Slots :
         (calls[s].pc # "idle" /\ calls[s].query.t = "str")
         => /\ TrimmedLength(calls[s].query) \in 2..MaxQueryLength
                 => (~RejectedByBookAPI(s) /\ ~RejectedByServer(s))
            /\ TrimmedLength(calls[s].query) > MaxQueryLength => ~calls[s].mlInvoked

\* C10: the maxResults forwarded to the ML service is an integer in 1..20, and 10
\* when the caller gave none.
\* (This is the claim as stated; the spread of preferences overwrites the clamped value.)
C10_MaxResultsClamped ==
    \A s \in Slots :
        calls[s].mlInvoked
        => LET forwarded == Get(calls[s].mlRequest.preferences, "maxResults")
           IN  /\ forwarded.t = "num"
               /\ forwarded.n \in 1..MaxResultsCeiling
               /\ ~HasProp(calls[s].preferences, "maxResults")
                    => forwarded.n = DefaultMaxResults

----------------------------------------------------------------------------
(* Properties of the cache key *)

\* the call in slot s has computed its cache key
Keyed(s) == calls[s].lookup # "none"

\* the properties of the preferences object BookAPI sends: defaults filled in
EffectivePreferences(p) ==
    LET o == RequestBody(Str(<<>>), p).preferences
    IN  {o[i] : i \in 1..Len(o)}

\* C11: two queries that differ only in letter case or in leading/trailing
\* whitespace, with identical preferences, get the same cache key.
\* (This is the claim as stated; generateCacheKey lowercases but does not trim.)
C11_KeyIgnoresCaseAndBlanks ==
    \A s1, s2 \in Slots :
        (/\ Keyed(s1) /\ Keyed(s2)
         /\ ToLowerCase(Trim(calls[s1].query.s)) = ToLowerCase(Trim(calls[s2].query.s))
         /\ calls[s1].preferences = calls[s2].preferences)
        => calls[s1].cacheKey = calls[s2].cacheKey

\* C12: two preferences objects with the same fields and values, whatever the order
\* of the fields and whether or not a default is spelled out, get the same cache key
\* for the same query.
\* (This is the claim as stated; the key holds JSON.stringify(preferences) as given.)
C12_KeyCanonicalPreferences ==
    \A s1, s2 \in Slots :
        (/\ Keyed(s1) /\ Keyed(s2)
         /\ calls[s1].query = calls[s2].query
         /\ EffectivePreferences(calls[s1].preferences)
              = EffectivePreferences(calls[s2].preferences))
        => calls[s1].cacheKey = calls[s2].cacheKey

\* C13: two requests whose (lowercased query, serialized preferences) differ never
\* have the same cache key, and no call returns a response cached for another
\* query (the response names the trimmed query it answers).
\* (This is the claim as stated; '+' and '/' are removed from the base64 text.)
C13_KeyCollisionFree ==
    /\ \A s1, s2 \in Slots :
          (/\ Keyed(s1) /\ Keyed(s2)
           /\ KeyText(calls[s1].query, calls[s1].preferences)
                # KeyText(calls[s2].query, calls[s2].preferences))
          => calls[s1].cacheKey # calls[s2].cacheKey
    /\ \A s \in Slots :
          (Done(s) /\ calls[s].lookup = "hit")
          => ToLowerCase(calls[s].result.data.query.s)
               = ToLowerCase(Trim(calls[s].query.s))

----------------------------------------------------------------------------
(* Properties of the error responses *)

\* the endpoint has answered the request of slot s
Answered(s) == calls[s].response # NoResponse

\* axios gave up after its 30 s (ECONNABORTED), or the socket timed out (ETIMEDOUT)
TimedOut(reply) == reply.t = "err" /\ reply.code \in {"ECONNABORTED", "ETIMEDOUT"}
Refused(reply) == reply.t = "err" /\ reply.code = "ECONNREFUSED"

\* C14: for the same request, the response after a backend timeout is the response
\* after a refused connection: same status, success flag, error and message.
\* (This is the claim as stated; the axios timeout is answered with 500.)
C14_TimeoutAsUnavailable ==
    \A s1, s2 \in Slots :
        (/\ Answered(s1) /\ Answered(s2)
         /\ calls[s1].requestBody = calls[s2].requestBody
         /\ Refused(calls[s1].ml) /\ TimedOut(calls[s2].ml))
        => /\ calls[s1].response.status = calls[s2].response.status
           /\ calls[s1].response.body.success = calls[s2].response.body.success
           /\ calls[s1].response.body.error = calls[s2].response.body.error
           /\ calls[s1].response.body.message = calls[s2].response.body.message

\* the ML service answered with a client error that carries an error message
BackendRejected(reply) == reply.t = "err" /\ reply.status \in 400..499 /\ reply.error # ""

\* C15: when the ML service answers with a structured client error, the endpoint
\* answers with an error response whose error is the backend's error, and what
\* getRecommendations throws is the backend's error or message.
\* (This is the claim as stated; only status 400 is passed through, and BookAPI
\* shows the message field.)
C15_BackendErrorPassedThrough ==
    \A s \in Slots :
        (Answered(s) /\ BackendRejected(calls[s].ml))
        => /\ ~calls[s].response.body.success
           /\ calls[s].response.body.error = calls[s].ml.error
           /\ (Done(s) /\ calls[s].via = "api" /\ ~IncludesFetch(calls[s].result.message))
               => /\ calls[s].result.kind = "throw"
                  /\ calls[s].result.message \in {calls[s].ml.error, calls[s].ml.message}

\* C16: every error response of the endpoint has success = false and carries both
\* an error and a message.
\* (This is the claim as stated; the validation responses carry no message.)
C16_ErrorShape ==
    \A s \in Slots :
        (Answered(s) /\ calls[s].response.status \notin 200..299)
        => /\ "success" \in calls[s].response.body.fields
           /\ ~calls[s].response.body.success
           /\ {"error", "message"} \subseteq calls[s].response.body.fields

\* the message of the exception the handler of slot s caught ("" if none)
Caught(s) ==
    IF calls[s].thrown # "" THEN calls[s].thrown
    ELSE IF calls[s].ml.t = "err" /\ calls[s].ml # NoMl THEN AxiosMessage(calls[s].ml)
    ELSE ""

\* C17: the message of an exception caught while handling a request appears in no
\* field of the response, and what getRecommendations throws does not show it.
\* (This is the claim as stated; the mock endpoint answers message: error.message.)
C17_NoExceptionDetail ==
    \A s \in Slots :
        (Answered(s) /\ Caught(s) # "")
        => /\ calls[s].response.body.error # Caught(s)
           /\ calls[s].response.body.message # Caught(s)
           /\ Done(s) => calls[s].result.message # Caught(s)

----------------------------------------------------------------------------
(* Properties of the request state machine *)

\* C18: every request sent to the endpoint is eventually answered, the call that
\* sent it ends, and a response once sent is the only one.
\* (This is the claim as stated; a 400 reply with a null body is never answered.)
C18_EveryRequestAnswered ==
    /\ \A s \in Slots : (calls[s].pc = "fetching") ~> (Answered(s) /\ Done(s))
    /\ [][\A s \in Slots :
            calls[s].pc = "responded" => calls'[s].response = calls[s].response]_vars

\* C19: a getRecommendations call whose query fails validation never computes a
\* cache key and never consults the cache.
\* (This is the claim as stated; BookAPI reads the cache before it validates.)
C19_ValidationBeforeLookup ==
    \A s \in Slots :
        (calls[s].pc # "idle" /\ calls[s].via = "api" /\ InvalidQuery(calls[s].query))
        => calls[s].cacheKey = <<>> /\ calls[s].lookup = "none"

----------------------------------------------------------------------------
(* Properties of expiry *)

\* the step is the cache lookup of the call in slot s, and it found its entry expired
ExpiredRead(s) ==
    /\ calls[s].pc \in {"idle", "done"}
    /\ calls'[s].pc = "fetching"
    /\ calls'[s].lookup = "expired"

\* C20: a lookup that finds its entry older than five minutes removes that entry
\* and no other and goes on as a miss; an entry leaves the cache only by such a
\* lookup of its own key or by the eviction of setCache, so expired entries that
\* are not read stay, and the passing of time removes nothing.
C20_LazyExpiry ==
    /\ [][\A s \in Slots : ExpiredRead(s) =>
            /\ MapHas(cache, calls'[s].cacheKey)
            /\ now - MapGet(cache, calls'[s].cacheKey).timestamp > cacheTimeout
            /\ cache' = MapDelete(cache, calls'[s].cacheKey)
            /\ DOMAIN cache'.entries = DOMAIN cache.entries \ {calls'[s].cacheKey}
            /\ \A k \in DOMAIN cache'.entries : cache'.entries[k] = cache.entries[k]
            /\ calls'[s].fetched]_vars
    /\ [][\A k \in DOMAIN cache.entries \ DOMAIN cache'.entries :
            \/ \E s \in Slots : ExpiredRead(s) /\ calls'[s].cacheKey = k
            \/ /\ k \in evictedKeys'
               /\ \/ warmedUp' # warmedUp
                  \/ \E s \in Slots : calls[s].pc = "responded" /\ calls'[s].storedAt = now]_vars
    /\ [][now' # now => cache' = cache]_vars

\* a lookup removed its own expired entry and its call has stored the fresh
\* response, while expired entries that nobody read still fill the cache to its bound
C20_Witness ==
    \E s \in Slots :
        /\ Done(s) /\ calls[s].lookup = "expired" /\ calls[s].age > cacheTimeout
        /\ calls[s].storedAt = now
        /\ MapSize(cache) = MaxCacheSize
        /\ \E k \in DOMAIN cache.entries : now - cache.entries[k].timestamp > cacheTimeout

----------------------------------------------------------------------------
(* Properties of ModelIntegration *)

Search(r) == modelIntegration.searches[r]
Processed(r) == Search(r).pc \in {"processed", "enhanced"}
Enhanced(r) == Search(r).pc = "enhanced"
Features(r) == Search(r).processedQuery.extractedFeatures
Range(seq) == {seq[i] : i \in 1..Len(seq)}

\* the i-th candidate of search r and its enhanced result
Candidate(r, i) == Search(r).recommendations[i]
Result(r, i) == Search(r).enhancedResults[i]
Candidates(r) == 1..Len(Search(r).recommendations)

\* some extracted genre / author occurs in the book's genre / author field,
\* letter case ignored
GenreSubstring(r, i) ==
    /\ Get(Candidate(r, i), "genre").t = "str"
    /\ \E g \in Range(Features(r).genres) :
           Includes(ToLowerCase(Get(Candidate(r, i), "genre").s), ToLowerCase(g))
AuthorSubstring(r, i) ==
    /\ Get(Candidate(r, i), "author").t = "str"
    /\ \E a \in Range(Features(r).authors) :
           Includes(ToLowerCase(Get(Candidate(r, i), "author").s), ToLowerCase(a))

HasSimilarity(r, i) ==
    Get(Candidate(r, i), "similarity").t = "num" /\ Get(Candidate(r, i), "similarity").n \in 0..100
HasRating(r, i) ==
    Get(Candidate(r, i), "rating").t = "num" /\ Get(Candidate(r, i), "rating").n \in 0..500
Similarity(r, i) == Get(Candidate(r, i), "similarity").n
Rating(r, i) == Get(Candidate(r, i), "rating").n

Boost(condition, amount) == IF condition THEN amount ELSE 0

\* C21: the relevanceScore of every enhanced candidate with a similarity in
\* [0,1], 0 included, is its similarity plus 0.10 for a genre match plus 0.15
\* for an author match, capped at 1.0
C21_RelevanceScore ==
    \A r \in Searches :
        Enhanced(r) =>
            \A i \in Candidates(r) :
                HasSimilarity(r, i) =>
                    Get(Result(r, i), "relevanceScore") =
                        Num(Min(Similarity(r, i) + Boost(GenreSubstring(r, i), 10)
                                    + Boost(AuthorSubstring(r, i), 15),
                                100))

\* C22: the confidence of every enhanced candidate is 0.70, plus 0.20 when the
\* similarity is above 0.8, plus 0.10 when the rating is above 4.0, plus 0.10
\* when some genre was extracted from the query, capped at 1.0; a similarity
\* of exactly 0.8 and a rating of exactly 4.0 give nothing
C22_Confidence ==
    \A r \in Searches :
        Enhanced(r) =>
            \A i \in Candidates(r) :
                LET book == Candidate(r, i)
                    high == Get(book, "similarity").t = "num" /\ Get(book, "similarity").n > 80
                    rated == Get(book, "rating").t = "num" /\ Get(book, "rating").n > 400
                    genres == Features(r).genres # <<>>
                IN  /\ Get(Result(r, i), "confidence") =
                           Num(Min(70 + Boost(high, 20) + Boost(rated, 10)
                                       + Boost(genres, 10), 100))
                    /\ (Get(book, "similarity") = Num(80) /\ Get(book, "rating") = Num(400))
                           => Get(Result(r, i), "confidence").n \in {70, 80}

\* a candidate exactly on both thresholds, whose genre matches no extracted
\* genre, gets 0.80: only the boost for the non-empty genre set
C22_Witness ==
    \E r \in Searches :
        /\ Enhanced(r)
        /\ \E i \in Candidates(r) :
               /\ Get(Candidate(r, i), "similarity") = Num(80)
               /\ Get(Candidate(r, i), "rating") = Num(400)
               /\ Features(r).genres # <<>>
               /\ ~GenreSubstring(r, i)
               /\ Get(Result(r, i), "confidence") = Num(80)
        /\ \E i \in Candidates(r) :
               /\ Get(Candidate(r, i), "similarity").n > 80
               /\ Get(Candidate(r, i), "rating").n > 400
               /\ Get(Result(r, i), "confidence") = Num(100)

ReasonTable(r, i) ==
    <<[reason |-> Chars("High content similarity"),
       holds  |-> Get(Candidate(r, i), "similarity").t = "num"
                      /\ Get(Candidate(r, i), "similarity").n > 80],
      [reason |-> Chars("Matching genre"), holds |-> GenreSubstring(r, i)],
      [reason |-> Chars("Highly rated"),
       holds  |-> Get(Candidate(r, i), "rating").t = "num"
                      /\ Get(Candidate(r, i), "rating").n > 450]>>

\* C23: matchReasons lists, in the fixed order "High content similarity",
\* "Matching genre", "Highly rated", exactly the reasons whose conditions
\* hold (similarity > 0.8, genre match, rating > 4.5), each at most once
C23_MatchReasons ==
    \A r \in Searches :
        Enhanced(r) =>
            \A i \in Candidates(r) :
                LET held == SelectSeq(ReasonTable(r, i), LAMBDA e : e.holds)
                    reasons == Get(Result(r, i), "matchReasons")
                IN  /\ reasons.t = "arr"
                    /\ reasons.a = [k \in 1..Len(held) |-> held[k].reason]
                    /\ Cardinality(Range(reasons.a)) = Len(reasons.a)

\* one response with a candidate that earns all three reasons and a candidate
\* on the thresholds that earns none
C23_Witness ==
    \E r \in Searches :
        /\ Enhanced(r)
        /\ \E i \in Candidates(r) : Len(Get(Result(r, i), "matchReasons").a) = 3
        /\ \E i \in Candidates(r) :
               /\ Get(Result(r, i), "matchReasons").a = <<>>
               /\ Get(Candidate(r, i), "rating") = Num(400)

\* C24: for a candidate with similarity in [0,1] and rating in [0,5], the
\* relevanceScore and the confidence both lie in [0,1], whatever boosts apply
C24_Clamp ==
    \A r \in Searches :
        Enhanced(r) =>
            \A i \in Candidates(r) :
                (HasSimilarity(r, i) /\ HasRating(r, i)) =>
                    /\ Get(Result(r, i), "relevanceScore").t = "num"
                    /\ Get(Result(r, i), "relevanceScore").n \in 0..100
                    /\ Get(Result(r, i), "confidence").t = "num"
                    /\ Get(Result(r, i), "confidence").n \in 0..100

\* a candidate whose boosts add up to more than 1.0 for both values
C24_Witness ==
    \E r \in Searches :
        /\ Enhanced(r)
        /\ \E i \in Candidates(r) :
               /\ HasSimilarity(r, i) /\ HasRating(r, i)
               /\ GenreSubstring(r, i) /\ AuthorSubstring(r, i)
               /\ Similarity(r, i) + 25 > 100
               /\ Similarity(r, i) > 80 /\ Rating(r, i) > 400
               /\ Get(Result(r, i), "relevanceScore") = Num(100)
               /\ Get(Result(r, i), "confidence") = Num(100)

Added == {"relevanceScore", "confidence", "matchReasons"}

\* C25: postProcessResults returns as many results as it was given
\* candidates, the i-th result being the i-th candidate, with its id,
\* similarity and other fields, plus relevanceScore, confidence and
\* matchReasons: nothing is reordered, dropped or duplicated
C25_OrderPreserved ==
    \A r \in Searches :
        Enhanced(r) =>
            /\ Len(Search(r).enhancedResults) = Len(Search(r).recommendations)
            /\ \A i \in Candidates(r) :
                   /\ Get(Result(r, i), "id") = Get(Candidate(r, i), "id")
                   /\ Get(Result(r, i), "similarity") = Get(Candidate(r, i), "similarity")
                   /\ \A p \in 1..Len(Candidate(r, i)) :
                          Candidate(r, i)[p].k \notin Added
                              => Get(Result(r, i), Candidate(r, i)[p].k) = Candidate(r, i)[p].v
                   /\ \A k \in Added : HasProp(Result(r, i), k)

\* boosting has given a later candidate a higher relevanceScore than an
\* earlier one, which had the higher similarity
C25_Witness ==
    \E r \in Searches :
        /\ Enhanced(r)
        /\ \E i, j \in Candidates(r) :
               /\ i < j
               /\ Similarity(r, i) > Similarity(r, j)
               /\ Get(Result(r, i), "relevanceScore").n < Get(Result(r, j), "relevanceScore").n
               /\ Get(Result(r, i), "id") # Get(Result(r, j), "id")

QueryTypes == {"author", "similar", "genre", "title", "description"}

Selected(table, text) ==
    {table[c].category : c \in {d \in 1..Len(table) : SomeKeyword(text, table[d].keywords)}}

\* C27: a category of the genre (theme) table is among the extracted genres
\* (themes) exactly when one of its keyword phrases occurs in the lowercased
\* raw query; no category is listed twice and none comes from outside the
\* table
C27_Detection ==
    \A r \in Searches :
        Processed(r) =>
            LET lower == ToLowerCase(Search(r).query)
            IN  /\ Range(Features(r).genres) = Selected(genreKeywords, lower)
                /\ Range(Features(r).themes) = Selected(themeKeywords, lower)
                /\ Cardinality(Range(Features(r).genres)) = Len(Features(r).genres)
                /\ Cardinality(Range(Features(r).themes)) = Len(Features(r).themes)
                /\ Range(Features(r).genres) \subseteq Range([c \in 1..Len(genreKeywords) |-> genreKeywords[c].category])
                /\ Range(Features(r).themes) \subseteq Range([c \in 1..Len(themeKeywords) |-> themeKeywords[c].category])

\* "Sci-Fi" gives the genre sci-fi, although the cleaned text "sci fi" holds
\* no keyword, and no theme
C27_Witness ==
    \E r \in Searches :
        /\ Processed(r)
        /\ Search(r).query = Chars("Sci-Fi")
        /\ Features(r).genres = <<Chars("sci-fi")>>
        /\ Features(r).themes = <<>>
        /\ Selected(genreKeywords, Search(r).processedQuery.cleanedQuery) = {}

\* C28: the keywords are the first 10, in order, of the tokens of the cleaned
\* text (lowercased, punctuation replaced by spaces) split on whitespace that
\* are longer than 2 characters and are not stopwords; so there are at most
\* 10, and none contains a non-word character, is 2 characters or shorter,
\* or is a stopword
C28_Keywords ==
    \A r \in Searches :
        Processed(r) =>
            LET tokens == SplitSpaces(Search(r).processedQuery.cleanedQuery)
                kept == SelectSeq(tokens, LAMBDA w : Len(w) > 2 /\ w \notin stopWords)
                keywords == Features(r).keywords
            IN  /\ keywords = SubSeq(kept, 1, Min(Len(kept), 10))
                /\ Len(keywords) <= 10
                /\ \A w \in Range(keywords) :
                       /\ \A c \in Range(w) : WordChar(c)
                       /\ Len(w) > 2
                       /\ w \notin stopWords

\* C29: genres, authors, themes and keywords depend on the cleaned text only:
\* two queries with the same cleanQuery result (differing in letter case or
\* punctuation, say) have the same extracted features
C29_FeaturesOfCleanedText ==
    \A r1, r2 \in Searches :
        (/\ Processed(r1) /\ Processed(r2)
         /\ Search(r1).processedQuery.cleanedQuery = Search(r2).processedQuery.cleanedQuery)
            => Features(r1) = Features(r2)

----------------------------------------------------------------------------
(* Properties of the batch and fallback endpoints *)

IsBatch(s) == calls[s].path = "/api/batch-recommendations"

\* the request of slot s carries an array of 1 to 10 queries
BatchAccepted(s) ==
    LET queries == calls[s].requestBody.query
    IN  queries.t = "arr" /\ Len(queries.a) \in 1..10

BatchAnswered(s) == IsBatch(s) /\ calls[s].pc \in {"responded", "done"}

\* C31: a batch request whose queries are not an array, are empty or number more
\* than 10 is answered 400 with success false and the ML service is not called; a
\* batch of 1 to 10 queries is forwarded whole to the ML service
C31_BatchInvariant ==
    \A s \in Slots :
        /\ BatchAnswered(s) /\ ~BatchAccepted(s) =>
              /\ calls[s].response.status = 400
              /\ calls[s].response.body.success = FALSE
              /\ ~calls[s].mlInvoked
        /\ IsBatch(s) /\ calls[s].pc \in {"batchAtML", "responded", "done"}
                 /\ BatchAccepted(s) =>
              /\ calls[s].mlInvoked
              /\ calls[s].mlRequest.query = calls[s].requestBody.query
              /\ calls[s].response.status # 400

\* C31: the ML service is called for a batch only when the request is received,
\* once, and only for a batch of 1 to 10 queries
C31_BatchOneCall ==
    [][\A s \in Slots :
          IsBatch(s) /\ calls'[s].mlInvoked /\ ~calls[s].mlInvoked =>
              /\ calls[s].pc = "batchPosted" /\ calls'[s].pc = "batchAtML"
              /\ BatchAccepted(s)]_vars

\* C31: both of the above: rejected batches never reach the ML service, and a
\* batch of 1 to 10 queries reaches it in exactly one call
C31_BatchCap == []C31_BatchInvariant /\ C31_BatchOneCall

\* C31: a batch of 10 queries was forwarded and answered while a batch of 11 was
\* rejected
C31_Witness ==
    /\ BatchAnswered(1) /\ Len(calls[1].requestBody.query.a) = 10
    /\ calls[1].mlInvoked /\ calls[1].response.status = 200
    /\ BatchAnswered(2) /\ calls[2].requestBody.query.t = "arr"
    /\ Len(calls[2].requestBody.query.a) = 11
    /\ calls[2].response.status = 400 /\ ~calls[2].mlInvoked

IsFallback(s) ==
    /\ calls[s].path = "/api/recommendations/fallback"
    /\ calls[s].pc \in {"responded", "done"}

IsNormal(s) ==
    /\ calls[s].path = "/api/recommendations"
    /\ calls[s].pc \in {"responded", "done"}

\* C32: the fallback endpoint answers every query and preferences with the same
\* non-empty list, success true, fallback true and totalResults the length of the
\* list; no response of the normal endpoint carries a fallback field
C32_Fallback ==
    /\ \A s \in Slots : IsFallback(s) =>
          LET body == calls[s].response.body
          IN  /\ calls[s].response.status = 200
              /\ body.success = TRUE
              /\ "fallback" \in body.fields /\ body.fallback = TRUE
              /\ body.recommendations # <<>>
              /\ body.totalResults = Len(body.recommendations)
    /\ \A s, u \in Slots : IsFallback(s) /\ IsFallback(u) =>
          calls[s].response.body.recommendations
              = calls[u].response.body.recommendations
    /\ \A s \in Slots : IsNormal(s) => "fallback" \notin calls[s].response.body.fields

\* C32: two fallback requests with different queries and preferences were answered
C32_Witness ==
    /\ IsFallback(1) /\ IsFallback(2)
    /\ calls[1].query # calls[2].query
    /\ calls[1].preferences # calls[2].preferences

----------------------------------------------------------------------------
(* Properties of cache hits *)

\* this step is a getRecommendations of slot s answered from the cache
HitStep(s) ==
    /\ calls[s].pc \in {"idle", "done"}
    /\ calls'[s] # calls[s]
    /\ calls'[s].pc = "done"
    /\ calls'[s].lookup = "hit"

\* C33: a step in which getFromCache finds a non-expired entry leaves the cache as
\* it was: the same keys in the same insertion order with the same timestamps
C33_HitReadOnly ==
    [][\A s \in Slots : HitStep(s) =>
          /\ cache'.order = cache.order
          /\ \A k \in DOMAIN cache.entries :
                cache'.entries[k].timestamp = cache.entries[k].timestamp
          /\ cache' = cache]_vars

\* C33: an entry was read from the cache some time after its insertion, and a
\* later lookup, less than the time-out after that read, found it expired
C33_Witness ==
    \E s, u \in Slots :
        /\ calls[s].pc = "done" /\ calls[s].lookup = "hit" /\ calls[s].age > 0
        /\ calls[u].lookup = "expired" /\ calls[u].cacheKey = calls[s].cacheKey
        /\ calls[u].startedAt > calls[s].startedAt
        /\ calls[u].startedAt - calls[s].startedAt <= cacheTimeout

----------------------------------------------------------------------------
(* Properties of cleanQuery *)

\* text is lowercase words separated by single spaces, with no space at either end
Normalized(text) ==
    /\ \A i \in 1..Len(text) : WordChar(text[i]) \/ text[i] = 32
    /\ \A i \in 1..Len(text) : LowerChar(text[i]) = text[i]
    /\ \A i \in 1..(Len(text) - 1) : ~(text[i] = 32 /\ text[i + 1] = 32)
    /\ text # <<>> => text[1] # 32 /\ text[Len(text)] # 32

\* C39: the cleaned text of every preprocessed query is a fixed point of cleanQuery
\* and is normalized: lowercase, only word characters and single spaces, no leading
\* or trailing whitespace
C39_CleanIdempotent ==
    \A r \in Searches : Processed(r) =>
        /\ cleanQuery(Search(r).processedQuery.cleanedQuery)
              = Search(r).processedQuery.cleanedQuery
        /\ Normalized(Search(r).processedQuery.cleanedQuery)

----------------------------------------------------------------------------
(* Properties of the success responses *)

\* C36: every success response of the recommendation endpoints (forwarding, mock
\* and fallback) has totalResults equal to the number of its recommendations
C36_TotalResults ==
    \A s \in Slots :
        (/\ calls[s].pc \in {"responded", "done"}
         /\ calls[s].path # "/api/batch-recommendations"
         /\ calls[s].response.status = 200
         /\ calls[s].response.body.success = TRUE)
            => calls[s].response.body.totalResults
                   = Len(calls[s].response.body.recommendations)

----------------------------------------------------------------------------
(* Properties of the page *)

\* the search of slot s awaits getRecommendations
InFlight(s) == app.searches[s].pc = "awaiting"

SearchInFlight == \E s \in Slots : InFlight(s)

\* the results section is visible and shows cards
ResultsDisplayed == app.resultsSection = "block" /\ app.resultsGrid # <<>>

\* C34: whenever no search is in flight and results are displayed, they are the
\* results rendered for currentQuery (not those of a superseded or cancelled search)
C34_DisplayedForCurrentQuery ==
    (~SearchInFlight /\ ResultsDisplayed) =>
        app.resultsSubtitle.query = app.currentQuery

\* C35: isLoading is true, and the search button disabled, exactly while some
\* search started by handleSearch awaits its response
C35_LoadingWhileInFlight ==
    /\ app.isLoading = SearchInFlight
    /\ app.buttonDisabled = app.isLoading

\* some search has run to its end
SearchFinished == \E s \in Slots : app.searches[s].pc \in {"displayed", "failed"}

\* C38: once a search has finished, the results section and the empty state are
\* never both visible
C38_ResultsOrEmptyState ==
    SearchFinished => ~(app.resultsSection = "block" /\ app.emptyState = "block")

\* the step in which handleSearch of slot s receives a response and post-processes
\* its recommendations
PostProcessStep(s) ==
    /\ calls'[s] # calls[s]
    /\ calls'[s].result.kind = "return"
    /\ app'.searches[s].pc = "displayed"

\* the lists of books the ML service sends
BackendLists == {reply.recs : reply \in AppMlReplies}

\* C37: when handleSearch has post-processed the recommendations of a response,
\* the cache entry of that response is what getRecommendations returned, which
\* after a fetch is the body the server sent
C37_PostProcessFrame ==
    [][\A s \in Slots : PostProcessStep(s) =>
          /\ MapHas(cache', calls'[s].cacheKey)
          /\ MapGet(cache', calls'[s].cacheKey).data = calls'[s].result.data
          /\ calls'[s].fetched => calls'[s].result.data = calls[s].response.body]_vars

\* C37: every response held by the cache or returned from it carries the
\* recommendations as the ML service sent them
C37_CachedAsProduced ==
    /\ \A k \in DOMAIN cache.entries :
          cache.entries[k].data.recommendations \in BackendLists
    /\ \A s \in Slots :
          calls[s].lookup = "hit" /\ calls[s].result.kind = "return" =>
              calls[s].result.data.recommendations \in BackendLists

====
